---- MODULE Spec2Model ----
(***************************************************************************)
(* Double-entry ledger of badiattila/double_accounting.                    *)
(*                                                                         *)
(* The store is the two tables of accounting/models.py: txs maps the pk   *)
(* of a Transaction to its row, lines is the bag of EntryLine rows (the   *)
(* pk of a line is used by no code and is left out).  Amounts are integers *)
(* counting cents.  Every action is one call of a model method, of the     *)
(* posting service or of an admin handler, and runs as one database        *)
(* transaction: a call that raises leaves the tables as they were.  last   *)
(* records the call made and what the caller saw of it.                    *)
(***************************************************************************)
EXTENDS Integers, Sequences, FiniteSets, Bags, TLC

VARIABLES txs, lines, nextTx, last

vars == <<txs, lines, nextTx, last>>

store == <<txs, lines>>

(* ------------------------------ bounds -------------------------------- *)

MaxTx == 2

MaxLine == 2

MaxAmt == 1

(* --------------------------- reference data --------------------------- *)

Accounts == {"1000"}

Journals == {"GENERAL"}

Memos == {"Sale"}

Dates == {1}

\* the fields of a Transaction a caller supplies
Headers == [journal : Journals, tx_date : Dates, memo : Memos]

\* the <<debit, credit>> pairs a caller supplies: one-sided amounts, and the
\* malformed pairs (both zero, both positive, a negative side)
AmountsIn ==
    {<<d, 0>> : d \in 1 .. MaxAmt} \cup {<<0, c>> : c \in 1 .. MaxAmt}
    \cup {<<0, 0>>, <<MaxAmt, MaxAmt>>, <<0 - 1, 0>>, <<0, 0 - 1>>}

LineIn ==
    {[account |-> a, debit |-> p[1], credit |-> p[2]] : a \in Accounts, p \in AmountsIn}

\* the lists of at most n lines
LinesIn(n) == UNION {[1 .. k -> LineIn] : k \in 0 .. n}

(* ------------------------------ helpers ------------------------------- *)

Min(a, b) == IF a <= b THEN a ELSE b

One(r) == SetToBag({r})

\* sum of the debit column over a bag of rows
RECURSIVE SumDebit(_)
SumDebit(b) ==
    IF DOMAIN b = {} THEN 0
    ELSE LET r == CHOOSE x \in DOMAIN b : TRUE
         IN  b[r] * r.debit + SumDebit([x \in DOMAIN b \ {r} |-> b[x]])

\* sum of the credit column over a bag of rows
RECURSIVE SumCredit(_)
SumCredit(b) ==
    IF DOMAIN b = {} THEN 0
    ELSE LET r == CHOOSE x \in DOMAIN b : TRUE
         IN  b[r] * r.credit + SumCredit([x \in DOMAIN b \ {r} |-> b[x]])

\* tx.lines.all(): the stored lines whose foreign key is t
LinesOf(ls, t) == [r \in {x \in DOMAIN ls : x.transaction = t} |-> ls[r]]

Outcome(op, result) == [op |-> op, result |-> result]

(* --------------------------- EntryLine model -------------------------- *)

debit_xor_credit(l) == ~(l.debit > 0 /\ l.credit > 0)

\* a faulty non_negative_amounts: the check on credit is forgotten
non_negative_debit_only(l) == l.debit >= 0

non_negative_amounts(l) == l.debit >= 0 /\ l.credit >= 0

\* the two CheckConstraints of EntryLine.Meta, enforced by every INSERT/UPDATE
ConstraintsHold(l) == debit_xor_credit(l) /\ non_negative_amounts(l)

\* EntryLine.clean: TRUE when it raises no ValidationError
EntryLine_clean(l) == ~(l.debit = 0 /\ l.credit = 0)

\* EntryLine.full_clean: clean() and then the constraints (validate_constraints)
EntryLine_full_clean(l) == EntryLine_clean(l) /\ ConstraintsHold(l)

\* the currency of a line built from the fields l: the field default
\* unless l supplies one
currency_of(l) == IF "currency" \in DOMAIN l THEN l.currency ELSE "EUR"

\* a save that keeps the base_amount the caller supplied
EntryLine_row_kept(t, l) ==
    [transaction |-> t, account |-> l.account, debit |-> l.debit,
     credit |-> l.credit, currency |-> currency_of(l),
     base_amount |-> IF "base_amount" \in DOMAIN l THEN l.base_amount
                     ELSE l.debit - l.credit]

\* the row EntryLine.save writes for transaction t from the fields l:
\* base_amount is recomputed whatever l supplies
EntryLine_row(t, l) ==
    [transaction |-> t, account |-> l.account, debit |-> l.debit,
     credit |-> l.credit, currency |-> currency_of(l),
     base_amount |-> l.debit - l.credit]

(* -------------------------- Transaction model ------------------------- *)

\* a faulty Transaction.clean: the count of lines is not looked at
Transaction_clean_no_count(ls, t) ==
    SumDebit(LinesOf(ls, t)) = SumCredit(LinesOf(ls, t))

\* Transaction.clean on the stored lines: TRUE when it raises no ValidationError
Transaction_clean(ls, t) ==
    /\ BagCardinality(LinesOf(ls, t)) >= 2
    /\ SumDebit(LinesOf(ls, t)) = SumCredit(LinesOf(ls, t))

\* a new Transaction row: posted takes its default
Transaction_row(h) ==
    [journal |-> h.journal, tx_date |-> h.tx_date, memo |-> h.memo, posted |-> FALSE]

\* a faulty Transaction.post: the flag is set in memory and never saved
Transaction_post_unsaved(tt, ls, t) ==
    IF Transaction_clean(ls, t)
    THEN [txs |-> tt, result |-> "ok"]
    ELSE [txs |-> tt, result |-> "ValidationError"]

\* Transaction.post inside its atomic block: the rows after the call, and
\* "ok" or the exception raised by full_clean
Transaction_post(tt, ls, t) ==
    IF Transaction_clean(ls, t)
    THEN [txs |-> [tt EXCEPT ![t].posted = TRUE], result |-> "ok"]
    ELSE [txs |-> tt, result |-> "ValidationError"]

(* ------------------------------- Init --------------------------------- *)

Init ==
    /\ txs = <<>>
    /\ lines = EmptyBag
    /\ nextTx = 1
    /\ last = Outcome("init", "ok")

(* ----------------------- model-level operations ----------------------- *)

\* Transaction.objects.create(journal=, tx_date=, memo=): a new draft
TransactionCreate ==
    \E h \in Headers :
        /\ nextTx <= MaxTx
        /\ txs' = txs @@ (nextTx :> Transaction_row(h))
        /\ nextTx' = nextTx + 1
        /\ last' = Outcome("create", "ok")
        /\ UNCHANGED lines

\* EntryLine.objects.create(transaction=t, ...): save() of a new line; the
\* transaction may be a draft or posted, save() does not look at it
EntryLineCreate ==
    \E t \in DOMAIN txs, l \in LineIn :
        /\ BagCardinality(lines) < MaxLine
        /\ IF ConstraintsHold(l)
           THEN /\ lines' = lines (+) One(EntryLine_row(t, l))
                /\ last' = Outcome("line_create", "ok")
           ELSE /\ last' = Outcome("line_create", "IntegrityError")
                /\ UNCHANGED lines
        /\ UNCHANGED <<txs, nextTx>>

\* line.save() of a stored line after assigning its fields
EntryLineUpdate ==
    \E r \in DOMAIN lines, l \in LineIn :
        /\ IF ConstraintsHold(l)
           THEN /\ lines' = (lines (-) One(r)) (+) One(EntryLine_row(r.transaction, l))
                /\ last' = Outcome("line_update", "ok")
           ELSE /\ last' = Outcome("line_update", "IntegrityError")
                /\ UNCHANGED lines
        /\ UNCHANGED <<txs, nextTx>>

\* tx.post() on the stored transaction t, draft or posted
PostOn(t) ==
    /\ t \in DOMAIN txs
    /\ \E p \in {Transaction_post(txs, lines, t)} :
          /\ txs' = p.txs
          /\ last' = Outcome("post", p.result)
    /\ UNCHANGED <<lines, nextTx>>

Post == \E t \in DOMAIN txs : PostOn(t)

(* ------------------------------ service ------------------------------- *)

\* the rows written by the first n iterations of the loop over the lines
RECURSIVE NewLines(_, _, _)
NewLines(t, seq, n) ==
    IF n = 0 THEN EmptyBag
    ELSE NewLines(t, seq, n - 1) (+) One(EntryLine_row(t, seq[n]))

\* number of lines inserted before the loop stops: all of them, or those
\* before the first line a CheckConstraint refuses
Inserted(seq) ==
    IF \A k \in 1 .. Len(seq) : ConstraintsHold(seq[k]) THEN Len(seq)
    ELSE (CHOOSE k \in 1 .. Len(seq) :
             /\ ~ConstraintsHold(seq[k])
             /\ \A i \in 1 .. (k - 1) : ConstraintsHold(seq[i])) - 1

\* a service without the atomic block: what was written stays
no_rollback(before, partial) == partial

\* leaving "with dbtx.atomic()" by an exception restores the tables
atomic_rollback(before, partial) == before

\* create_and_post_transaction(journal, tx_date, memo, lines) with pk t for
\* the new transaction: the tables after the call and "ok" or the exception
create_and_post_transaction(tt, ls, t, h, seq) ==
    LET tt1 == tt @@ (t :> Transaction_row(h))
        ls1 == ls (+) NewLines(t, seq, Inserted(seq))
    IN  IF Inserted(seq) < Len(seq)
        THEN [store |-> atomic_rollback(<<tt, ls>>, <<tt1, ls1>>),
              result |-> "IntegrityError"]
        ELSE IF ~Transaction_clean(ls1, t)
        THEN [store |-> atomic_rollback(<<tt, ls>>, <<tt1, ls1>>),
              result |-> "ValidationError"]
        ELSE [store |-> <<Transaction_post(tt1, ls1, t).txs, ls1>>,
              result |-> Transaction_post(tt1, ls1, t).result]

\* one call of the service by the API, a command or a test
CreateAndPostWith(h, seq) ==
    /\ nextTx <= MaxTx
    /\ \E c \in {create_and_post_transaction(txs, lines, nextTx, h, seq)} :
       /\ txs' = c.store[1]
       /\ lines' = c.store[2]
       /\ nextTx' = IF nextTx \in DOMAIN c.store[1] THEN nextTx + 1 ELSE nextTx
       /\ last' = Outcome("create_and_post", c.result)

CreateAndPost ==
    \E h \in Headers, seq \in LinesIn(MaxLine - BagCardinality(lines)) :
        CreateAndPostWith(h, seq)

(* ---------------------------- admin actions --------------------------- *)
(* A selection of the change list holds one transaction here, so the loop  *)
(* of an admin action runs its body once.                                  *)

\* the rows of a bag in some order, one entry per copy
RECURSIVE BagToSeq(_)
BagToSeq(b) ==
    IF DOMAIN b = {} THEN <<>>
    ELSE LET r == CHOOSE x \in DOMAIN b : TRUE
         IN  <<r>> \o BagToSeq(b (-) One(r))

\* the body of the loop of TransactionAdmin.action_post for transaction t
action_post(tt, ls, t) ==
    IF tt[t].posted THEN [txs |-> tt, result |-> "skipped"]
    ELSE IF ~Transaction_clean(ls, t) THEN [txs |-> tt, result |-> "ValidationError"]
    ELSE Transaction_post(tt, ls, t)

AdminPostOn(t) ==
    /\ t \in DOMAIN txs
    /\ \E a \in {action_post(txs, lines, t)} :
          /\ txs' = a.txs
          /\ last' = Outcome("admin_post", a.result)
    /\ UNCHANGED <<lines, nextTx>>

AdminPost == \E t \in DOMAIN txs : AdminPostOn(t)

\* an unpost action that does what its name says
action_unpost(tt, t) == [tt EXCEPT ![t].posted = FALSE]

\* TransactionAdmin.action_unpost_blocked: a warning, no write
action_unpost_blocked(tt, t) == tt

AdminUnpostOn(t) ==
    /\ t \in DOMAIN txs
    /\ txs' = action_unpost_blocked(txs, t)
    /\ last' = Outcome("admin_unpost", "blocked")
    /\ UNCHANGED <<lines, nextTx>>

AdminUnpost == \E t \in DOMAIN txs : AdminUnpostOn(t)

ReversalMemo(t) == "Reversal of Tx " \o ToString(t)

\* a list of lines with debit and credit kept as they are
RECURSIVE Unswapped(_)
Unswapped(rows) ==
    IF rows = <<>> THEN <<>>
    ELSE <<[account |-> Head(rows).account,
            debit |-> Head(rows).debit,
            credit |-> Head(rows).credit]>> \o Unswapped(Tail(rows))

\* the list of swapped lines action_reverse_transaction builds from tx.lines
RECURSIVE Swapped(_)
Swapped(rows) ==
    IF rows = <<>> THEN <<>>
    ELSE <<[account |-> Head(rows).account,
            debit |-> Head(rows).credit,
            credit |-> Head(rows).debit]>> \o Swapped(Tail(rows))

\* a reversing action that does not look at the posted flag
action_reverse_any(tt, ls, nt, t) ==
    create_and_post_transaction(
        tt, ls, nt,
        [journal |-> tt[t].journal, tx_date |-> tt[t].tx_date,
         memo |-> ReversalMemo(t)],
        Swapped(BagToSeq(LinesOf(ls, t))))

\* the body of the loop of action_reverse_transaction for transaction t;
\* nt is the pk the reversal gets
action_reverse_transaction(tt, ls, nt, t) ==
    IF ~tt[t].posted THEN [store |-> <<tt, ls>>, result |-> "skipped"]
    ELSE create_and_post_transaction(
             tt, ls, nt,
             [journal |-> tt[t].journal, tx_date |-> tt[t].tx_date,
              memo |-> ReversalMemo(t)],
             Swapped(BagToSeq(LinesOf(ls, t))))

AdminReverseOn(t) ==
    /\ t \in DOMAIN txs
    /\ txs[t].posted =>
          /\ nextTx <= MaxTx
          /\ BagCardinality(lines) + BagCardinality(LinesOf(lines, t)) <= MaxLine
    /\ \E a \in {action_reverse_transaction(txs, lines, nextTx, t)} :
       /\ txs' = a.store[1]
       /\ lines' = a.store[2]
       /\ nextTx' = IF nextTx \in DOMAIN a.store[1] THEN nextTx + 1 ELSE nextTx
       /\ last' = Outcome("admin_reverse", a.result)

AdminReverse == \E t \in DOMAIN txs : AdminReverseOn(t)

\* TransactionAdmin.has_delete_permission for a stored transaction
has_delete_permission(tt, t) == ~tt[t].posted

\* the admin delete view: refused without the permission, else the
\* transaction goes and its lines with it (on_delete=CASCADE)
AdminDeleteOn(t) ==
    /\ t \in DOMAIN txs
    /\ IF has_delete_permission(txs, t)
       THEN /\ txs' = [x \in DOMAIN txs \ {t} |-> txs[x]]
            /\ lines' = lines (-) LinesOf(lines, t)
            /\ last' = Outcome("admin_delete", "ok")
       ELSE /\ last' = Outcome("admin_delete", "PermissionDenied")
            /\ UNCHANGED <<txs, lines>>
    /\ UNCHANGED nextTx

AdminDelete == \E t \in DOMAIN txs : AdminDeleteOn(t)

(* ------------------- admin change form with inline lines -------------- *)

min_num == 2

extra == 2

\* one inline form as submitted: the line fields, the DELETE box, and
\* whether it is an extra form left as rendered (cleaned_data = {})
Form(l, del) ==
    [account |-> l.account, debit |-> l.debit, credit |-> l.credit,
     DELETE |-> del, empty |-> FALSE]

EmptyForm ==
    [account |-> "", debit |-> 0, credit |-> 0, DELETE |-> FALSE, empty |-> TRUE]

FormsOf(rows, del) == [k \in 1 .. Len(rows) |-> Form(rows[k], del)]

\* a submission of the page: the header fields, the stored lines ticked for
\* deletion, the stored lines changed (<<old row, new fields>>) and the
\* extra forms filled
Submission(h, del, chg, add) == [header |-> h, del |-> del, chg |-> chg, add |-> add]

Olds(chg) == [r \in {chg[k][1] : k \in 1 .. Len(chg)} |->
                 Cardinality({k \in 1 .. Len(chg) : chg[k][1] = r})]

News(chg) == [k \in 1 .. Len(chg) |-> chg[k][2]]

\* the forms of the rendered page for the stored lines b: one per stored
\* line (kept, ticked or changed), then the extra forms, the filled first
Forms(b, sub) ==
    LET n0 == BagCardinality(b)
        total == (IF n0 > min_num THEN n0 ELSE min_num) + extra
    IN  FormsOf(BagToSeq((b (-) sub.del) (-) Olds(sub.chg)), FALSE)
        \o FormsOf(BagToSeq(sub.del), TRUE)
        \o FormsOf(News(sub.chg), FALSE)
        \o FormsOf(sub.add, FALSE)
        \o [k \in 1 .. (total - n0 - Len(sub.add)) |-> EmptyForm]

\* EntryLineForm.clean: TRUE when it raises no ValidationError
EntryLineForm_clean(f) ==
    /\ ~(f.debit = 0 /\ f.credit = 0 /\ ~f.DELETE)
    /\ ~(f.debit > 0 /\ f.credit > 0)

\* is_valid of the form at index i of a formset with n0 initial forms: a
\* form ticked for deletion is not looked at, an untouched extra form is
\* accepted where empty_permitted, any other is cleaned by the form and
\* then by the model (ModelForm._post_clean)
FormValid(forms, i, n0) ==
    IF forms[i].DELETE THEN TRUE
    ELSE IF forms[i].empty THEN i > n0 /\ i > min_num
    ELSE EntryLineForm_clean(forms[i]) /\ EntryLine_full_clean(forms[i])

Alive(forms) == {i \in 1 .. Len(forms) : ~forms[i].DELETE}

RECURSIVE FormDebit(_, _)
FormDebit(forms, I) ==
    IF I = {} THEN 0
    ELSE LET i == CHOOSE x \in I : TRUE
         IN  forms[i].debit + FormDebit(forms, I \ {i})

RECURSIVE FormCredit(_, _)
FormCredit(forms, I) ==
    IF I = {} THEN 0
    ELSE LET i == CHOOSE x \in I : TRUE
         IN  forms[i].credit + FormCredit(forms, I \ {i})

\* EntryLineInlineFormSet.clean: TRUE when it raises no ValidationError
EntryLineInlineFormSet_clean(forms) ==
    /\ Cardinality(Alive(forms)) >= 2
    /\ FormDebit(forms, Alive(forms)) = FormCredit(forms, Alive(forms))

\* all_valid(formsets) for the inline formset
FormSetValid(forms, n0) ==
    /\ \A i \in 1 .. Len(forms) : FormValid(forms, i, n0)
    /\ EntryLineInlineFormSet_clean(forms)

\* TransactionAdmin.get_readonly_fields for a transaction row
get_readonly_fields(row) ==
    {"created_at", "posted"}
    \cup (IF row.posted THEN {"journal", "tx_date", "memo"} ELSE {})

\* the parent row written by the form: read-only fields keep their value
ParentRow(old, h) ==
    [journal |-> IF "journal" \in get_readonly_fields(old) THEN old.journal ELSE h.journal,
     tx_date |-> IF "tx_date" \in get_readonly_fields(old) THEN old.tx_date ELSE h.tx_date,
     memo |-> IF "memo" \in get_readonly_fields(old) THEN old.memo ELSE h.memo,
     posted |-> old.posted]

\* the lines of transaction t after the formset is saved
SavedLines(ls, t, sub) ==
    (((ls (-) sub.del) (-) Olds(sub.chg))
     (+) NewLines(t, News(sub.chg), Len(sub.chg)))
    (+) NewLines(t, sub.add, Len(sub.add))

\* the change view (t stored) or the add view (t the next pk, row a new
\* Transaction): the tables after the submission, "ok" or the form errors
changeform_view(tt, ls, t, row, sub) ==
    IF FormSetValid(Forms(LinesOf(ls, t), sub), BagCardinality(LinesOf(ls, t)))
    THEN [store |-> <<(t :> ParentRow(row, sub.header)) @@ tt, SavedLines(ls, t, sub)>>,
          result |-> "ok"]
    ELSE [store |-> <<tt, ls>>, result |-> "ValidationError"]

HeaderOf(row) == [journal |-> row.journal, tx_date |-> row.tx_date, memo |-> row.memo]

\* one submission of the change view of the stored transaction t
AdminChangeOn(t, sub) ==
    /\ t \in DOMAIN txs
    /\ BagCardinality(lines) + Len(sub.add) <= MaxLine
    /\ \E c \in {changeform_view(txs, lines, t, txs[t], sub)} :
       /\ txs' = c.store[1]
       /\ lines' = c.store[2]
       /\ last' = Outcome("admin_change", c.result)
    /\ UNCHANGED nextTx

\* the submissions tried: the page saved as rendered, or some lines ticked
\* for deletion, or one line changed, or one line added
AdminChange ==
    \E t \in DOMAIN txs :
        \/ \E h \in Headers : AdminChangeOn(t, Submission(h, EmptyBag, <<>>, <<>>))
        \/ \E d \in SubBag(LinesOf(lines, t)) \ {EmptyBag} :
              AdminChangeOn(t, Submission(HeaderOf(txs[t]), d, <<>>, <<>>))
        \/ \E r \in DOMAIN LinesOf(lines, t), l \in LineIn :
              AdminChangeOn(t, Submission(HeaderOf(txs[t]), EmptyBag, << <<r, l>> >>, <<>>))
        \/ \E l \in LineIn :
              AdminChangeOn(t, Submission(HeaderOf(txs[t]), EmptyBag, <<>>, <<l>>))

\* the add view: a new draft and the lines of the filled extra forms
AdminAdd ==
    \E h \in Headers,
       add \in LinesIn(Min(MaxLine - BagCardinality(lines), min_num + extra)) :
        /\ nextTx <= MaxTx
        /\ \E c \in {changeform_view(txs, lines, nextTx, Transaction_row(h),
                                    Submission(h, EmptyBag, <<>>, add))} :
           /\ txs' = c.store[1]
           /\ lines' = c.store[2]
           /\ nextTx' = IF c.result = "ok" THEN nextTx + 1 ELSE nextTx
           /\ last' = Outcome("admin_add", c.result)

Next ==
    \/ TransactionCreate
    \/ EntryLineCreate
    \/ EntryLineUpdate
    \/ Post
    \/ CreateAndPost
    \/ AdminPost
    \/ AdminUnpost
    \/ AdminReverse
    \/ AdminDelete
    \/ AdminChange
    \/ AdminAdd

Spec == Init /\ [][Next]_vars

(* ------------------------------- claims ------------------------------- *)

\* the lines of t fail the transaction check: fewer than two, or the debit
\* and credit columns differ
Unpostable(t) ==
    \/ BagCardinality(LinesOf(lines, t)) < 2
    \/ SumDebit(LinesOf(lines, t)) # SumCredit(LinesOf(lines, t))

OneSided(l) == (l.debit > 0 /\ l.credit = 0) \/ (l.debit = 0 /\ l.credit > 0)

BothZero(l) == l.debit = 0 /\ l.credit = 0

RECURSIVE SeqDebit(_)
SeqDebit(seq) == IF seq = <<>> THEN 0 ELSE Head(seq).debit + SeqDebit(Tail(seq))

RECURSIVE SeqCredit(_)
SeqCredit(seq) == IF seq = <<>> THEN 0 ELSE Head(seq).credit + SeqCredit(Tail(seq))

\* the supplied lines of a call as a bag of <<account, debit, credit>>
Supplied(seq) ==
    [v \in {<<seq[k].account, seq[k].debit, seq[k].credit>> : k \in 1 .. Len(seq)} |->
        Cardinality({k \in 1 .. Len(seq) :
                        <<seq[k].account, seq[k].debit, seq[k].credit>> = v})]

\* the stored lines of t as a bag of <<account, debit, credit>>
Owned(ls, t) ==
    [v \in {<<r.account, r.debit, r.credit>> : r \in DOMAIN LinesOf(ls, t)} |->
        BagCardinality([r \in {x \in DOMAIN LinesOf(ls, t) :
                                  <<x.account, x.debit, x.credit>> = v} |-> ls[r]])]

\* C1: in every reachable state every posted transaction has the sum of
\* debit over its lines equal to the sum of credit over its lines.
C1_BalanceInvariant ==
    \A t \in DOMAIN txs :
        txs[t].posted => SumDebit(LinesOf(lines, t)) = SumCredit(LinesOf(lines, t))

\* a line a CheckConstraint refuses: a negative side, or both sides positive
Malformed(l) == l.debit < 0 \/ l.credit < 0 \/ (l.debit > 0 /\ l.credit > 0)

\* C2: in every reachable state a call of create_and_post_transaction with
\* fewer than two lines, with unequal totals or with a malformed line is
\* rejected, and a call that is rejected returns the tables as they were;
\* every step of the service that ends rejected leaves the stored
\* transactions and lines exactly as they were before the call.
C2_CreateAndPostAllOrNothing ==
    /\ [](nextTx <= MaxTx =>
            \A h \in Headers, seq \in LinesIn(MaxLine - BagCardinality(lines)) :
                \A c \in {create_and_post_transaction(txs, lines, nextTx, h, seq)} :
                    /\ (\/ Len(seq) < 2
                        \/ SeqDebit(seq) # SeqCredit(seq)
                        \/ \E k \in 1 .. Len(seq) : Malformed(seq[k]))
                       => c.result # "ok"
                    /\ c.result # "ok" => c.store = <<txs, lines>>)
    /\ [][(last'.op = "create_and_post" /\ last'.result # "ok")
              => (txs' = txs /\ lines' = lines)]_vars

\* a rejected call of the service on a store that holds a transaction and a
\* line already
C2_Witness ==
    /\ last = Outcome("create_and_post", "ValidationError")
    /\ DOMAIN txs # {}
    /\ lines # EmptyBag

C4_ZeroLineRejected ==
    [][(last'.op = "create_and_post" /\ last'.result = "ok")
           => \A r \in DOMAIN LinesOf(lines', nextTx) : ~BothZero(r)]_vars

\* C5: every stored line has debit >= 0 and credit >= 0 and not both
\* positive; a step that creates or updates a line, or calls the service,
\* and ends with "ok" has stored no other kind of line, and one refused by
\* a constraint leaves the store unchanged.
C5_StoredLinesWellFormed ==
    /\ [](\A r \in DOMAIN lines :
              /\ r.debit >= 0
              /\ r.credit >= 0
              /\ ~(r.debit > 0 /\ r.credit > 0))
    /\ [][/\ last'.result = "IntegrityError" => (txs' = txs /\ lines' = lines)
          /\ last'.result = "ok" => \A r \in DOMAIN lines' : ~Malformed(r)]_vars

\* the update of a stored line has just been refused
C5_Witness ==
    /\ last = Outcome("line_update", "IntegrityError")
    /\ lines # EmptyBag

\* C6: post(t) on a transaction that is posted already fails.
C6_RepostFails ==
    [][\A t \in DOMAIN txs :
           (txs[t].posted /\ PostOn(t)) => last'.result # "ok"]_vars

C8_PostedNeverRemoved ==
    [][\A t \in DOMAIN txs :
           txs[t].posted =>
              /\ t \in DOMAIN txs'
              /\ BagCardinality(LinesOf(lines', t))
                    >= BagCardinality(LinesOf(lines, t))]_vars

\* C9: once a transaction is posted, its journal, date and memo and its
\* lines (account, debit, credit per line) are the same in every later
\* state.
C9_PostedImmutable ==
    [][\A t \in DOMAIN txs \cap DOMAIN txs' :
           txs[t].posted =>
              /\ txs'[t].journal = txs[t].journal
              /\ txs'[t].tx_date = txs[t].tx_date
              /\ txs'[t].memo = txs[t].memo
              /\ Owned(lines', t) = Owned(lines, t)]_vars

\* C10: post(t) on a draft whose stored lines are fewer than two or do not
\* balance fails, and leaves the flag and every line as they were.
C10_PostChecksDraft ==
    [][last'.op = "post" =>
           \A t \in DOMAIN txs :
               (~txs[t].posted /\ Unpostable(t) /\ PostOn(t))
               => /\ last'.result = "ValidationError"
                  /\ txs' = txs
                  /\ lines' = lines]_vars

\* post has just failed and every stored transaction is a draft with
\* fewer than two lines
C10_Witness ==
    /\ last = Outcome("post", "ValidationError")
    /\ DOMAIN txs # {}
    /\ \A t \in DOMAIN txs :
          ~txs[t].posted /\ BagCardinality(LinesOf(lines, t)) < 2

(* -------------------------- chart of accounts ------------------------- *)
(* From here on the account of a line is the Account row select_related    *)
(* fetches with it.  A code is the sequence of the code points of its       *)
(* characters, so that codes compare as Python strings do.                  *)

\* AccountType.values
AccountType == {"ASSET", "LIAB", "EQTY", "INC", "EXP", "C_ASSET", "C_LIAB"}

\* an Account row
Account(code, name, type, normal_debit) ==
    [code |-> code, name |-> name, type |-> type, normal_debit |-> normal_debit]

Bank == Account(<<49, 49, 48, 48>>, "Bank", "ASSET", TRUE)

Sales == Account(<<52, 48, 48, 48>>, "Sales", "INC", FALSE)

Food == Account(<<53, 50, 48, 48>>, "Food", "EXP", TRUE)

(* ------------------------------ reporting ----------------------------- *)
(* accounting/reporting.py over the tables tt and ls.  A Decimal is its     *)
(* value in cents and the number of decimal places it carries: a stored    *)
(* amount has two, the literal Decimal("0") has none.  A date is a day of  *)
(* August 2025.                                                            *)

Decimal(cents, places) == [cents |-> cents, places |-> places]

\* Decimal("0")
Zero == Decimal(0, 0)

DecAdd(x, y) ==
    Decimal(x.cents + y.cents, IF x.places >= y.places THEN x.places ELSE y.places)

DecNeg(x) == Decimal(0 - x.cents, x.places)

DecSub(x, y) == DecAdd(x, DecNeg(y))

\* str(+x) of a Decimal: the sign, the units and as many decimals as x carries
DecStr(x) ==
    LET a == IF x.cents < 0 THEN 0 - x.cents ELSE x.cents
        sign == IF x.cents < 0 THEN "-" ELSE ""
    IN  IF x.places = 0 THEN sign \o ToString(a \div 100)
        ELSE sign \o ToString(a \div 100) \o "." \o ToString((a % 100) \div 10)
                  \o ToString(a % 10)

\* str(d) of a date
DateStr(d) == "2025-08-" \o (IF d < 10 THEN "0" ELSE "") \o ToString(d)

\* a stored amount as read back from its DecimalField
Stored(n) == Decimal(n, 2)

\* a selection that forgets the posted flag
iter_lines_any(tt, ls, start, end) ==
    [r \in {x \in DOMAIN ls :
               /\ tt[x.transaction].tx_date <= end
               /\ \A s \in start : tt[x.transaction].tx_date >= s} |-> ls[r]]

\* _iter_lines(start, end): start is {} for None and {d} for the date d
iter_lines(tt, ls, start, end) ==
    [r \in {x \in DOMAIN ls :
               /\ tt[x.transaction].posted
               /\ tt[x.transaction].tx_date <= end
               /\ \A s \in start : tt[x.transaction].tx_date >= s} |-> ls[r]]

\* a base that forgets the credit side
line_base_debit_only(l) ==
    IF l.debit = 0 THEN Zero ELSE Stored(l.debit)

\* base = (l.debit or Decimal("0")) - (l.credit or Decimal("0"))
line_base(l) ==
    DecSub(IF l.debit = 0 THEN Zero ELSE Stored(l.debit),
           IF l.credit = 0 THEN Zero ELSE Stored(l.credit))

\* Decimal("0") plus the base of every line of a bag
RECURSIVE amount_base(_)
amount_base(b) ==
    IF DOMAIN b = {} THEN Zero
    ELSE LET r == CHOOSE x \in DOMAIN b : TRUE
         IN  DecAdd(amount_base(b (-) One(r)), line_base(r))

\* a display that shows every account as debit-normal
display_raw(normal_debit, base) == base

\* s.display = s.amount_base if s.normal_debit else -s.amount_base
display(normal_debit, base) == IF normal_debit THEN base ELSE DecNeg(base)

LineSum(acc, base) ==
    [account_code |-> acc.code, account_name |-> acc.name, type |-> acc.type,
     normal_debit |-> acc.normal_debit, amount_base |-> base,
     display |-> display(acc.normal_debit, base)]

\* _accumulate(lines): sums.values(), one LineSum per account met
accumulate(sel) ==
    {LineSum(a, amount_base([r \in {x \in DOMAIN sel : x.account = a} |-> sel[r]])) :
        a \in {r.account : r \in DOMAIN sel}}

\* sum((s.display for s in S), Decimal("0"))
RECURSIVE sum_display(_)
sum_display(S) ==
    IF S = {} THEN Zero
    ELSE LET s == CHOOSE x \in S : TRUE
         IN  DecAdd(sum_display(S \ {s}), s.display)

\* c < d for two codes, compared as Python compares strings
RECURSIVE CodeLess(_, _)
CodeLess(c, d) ==
    IF d = <<>> THEN FALSE
    ELSE IF c = <<>> THEN TRUE
    ELSE IF Head(c) # Head(d) THEN Head(c) < Head(d)
    ELSE CodeLess(Tail(c), Tail(d))

\* sorted(S, key=lambda x: x.account_code)
RECURSIVE sorted(_)
sorted(S) ==
    IF S = {} THEN <<>>
    ELSE LET s == CHOOSE x \in S : \A y \in S : ~CodeLess(y.account_code, x.account_code)
         IN  <<s>> \o sorted(S \ {s})

\* the rows of a section of a report
Rows(S) ==
    [k \in 1 .. Len(sorted(S)) |->
        [code |-> sorted(S)[k].account_code, name |-> sorted(S)[k].account_name,
         amount |-> DecStr(sorted(S)[k].display)]]

OfType(sums, type) == {s \in sums : s.type = type}

\* an income statement whose net income adds the expenses
income_statement_added(tt, ls, start, end) ==
    LET sums == accumulate(iter_lines(tt, ls, {start}, end))
        total_income == sum_display(OfType(sums, "INC"))
        total_expense == sum_display(OfType(sums, "EXP"))
    IN  [period |-> [start |-> DateStr(start), end |-> DateStr(end)],
         income |-> Rows(OfType(sums, "INC")),
         expenses |-> Rows(OfType(sums, "EXP")),
         totals |-> [income |-> DecStr(total_income),
                     expense |-> DecStr(total_expense),
                     net_income |-> DecStr(DecAdd(total_income, total_expense))]]

\* income_statement(start, end)
income_statement(tt, ls, start, end) ==
    LET sums == accumulate(iter_lines(tt, ls, {start}, end))
        total_income == sum_display(OfType(sums, "INC"))
        total_expense == sum_display(OfType(sums, "EXP"))
    IN  [period |-> [start |-> DateStr(start), end |-> DateStr(end)],
         income |-> Rows(OfType(sums, "INC")),
         expenses |-> Rows(OfType(sums, "EXP")),
         totals |-> [income |-> DecStr(total_income),
                     expense |-> DecStr(total_expense),
                     net_income |-> DecStr(DecSub(total_income, total_expense))]]

\* the code "RETAINED" as its code points
RETAINED == <<82, 69, 84, 65, 73, 78, 69, 68>>

\* a balance sheet that lists retained earnings and leaves them out of the
\* equity total
balance_sheet_unretained(tt, ls, as_of) ==
    LET cumulative == accumulate(iter_lines(tt, ls, {}, as_of))
        retained == DecSub(sum_display(OfType(cumulative, "INC")),
                           sum_display(OfType(cumulative, "EXP")))
        total_assets == sum_display(OfType(cumulative, "ASSET"))
        total_liabs == sum_display(OfType(cumulative, "LIAB"))
        total_equity == sum_display(OfType(cumulative, "EQTY"))
    IN  [as_of |-> DateStr(as_of),
         assets |-> Rows(OfType(cumulative, "ASSET")),
         liabilities |-> Rows(OfType(cumulative, "LIAB")),
         equity |-> Rows(OfType(cumulative, "EQTY"))
                    \o <<[code |-> RETAINED, name |-> "Retained Earnings",
                          amount |-> DecStr(retained)]>>,
         totals |-> [assets |-> DecStr(total_assets),
                     liabilities_plus_equity |-> DecStr(DecAdd(total_liabs, total_equity)),
                     balanced |-> (total_assets.cents
                                      = DecAdd(total_liabs, total_equity).cents)]]

\* a balance sheet that adds retained earnings to the totals and lists no
\* row for them
balance_sheet_unlisted(tt, ls, as_of) ==
    LET cumulative == accumulate(iter_lines(tt, ls, {}, as_of))
        retained == DecSub(sum_display(OfType(cumulative, "INC")),
                           sum_display(OfType(cumulative, "EXP")))
        total_assets == sum_display(OfType(cumulative, "ASSET"))
        total_liabs == sum_display(OfType(cumulative, "LIAB"))
        total_equity == DecAdd(sum_display(OfType(cumulative, "EQTY")), retained)
    IN  [as_of |-> DateStr(as_of),
         assets |-> Rows(OfType(cumulative, "ASSET")),
         liabilities |-> Rows(OfType(cumulative, "LIAB")),
         equity |-> Rows(OfType(cumulative, "EQTY")),
         totals |-> [assets |-> DecStr(total_assets),
                     liabilities_plus_equity |-> DecStr(DecAdd(total_liabs, total_equity)),
                     balanced |-> (total_assets.cents
                                      = DecAdd(total_liabs, total_equity).cents)]]

\* balance_sheet(as_of)
balance_sheet(tt, ls, as_of) ==
    LET cumulative == accumulate(iter_lines(tt, ls, {}, as_of))
        retained == DecSub(sum_display(OfType(cumulative, "INC")),
                           sum_display(OfType(cumulative, "EXP")))
        total_assets == sum_display(OfType(cumulative, "ASSET"))
        total_liabs == sum_display(OfType(cumulative, "LIAB"))
        total_equity == DecAdd(sum_display(OfType(cumulative, "EQTY")), retained)
    IN  [as_of |-> DateStr(as_of),
         assets |-> Rows(OfType(cumulative, "ASSET")),
         liabilities |-> Rows(OfType(cumulative, "LIAB")),
         equity |-> Rows(OfType(cumulative, "EQTY"))
                    \o <<[code |-> RETAINED, name |-> "Retained Earnings",
                          amount |-> DecStr(retained)]>>,
         totals |-> [assets |-> DecStr(total_assets),
                     liabilities_plus_equity |-> DecStr(DecAdd(total_liabs, total_equity)),
                     balanced |-> (total_assets.cents
                                      = DecAdd(total_liabs, total_equity).cents)]]

(* ----------------------- reversal specification ----------------------- *)
(* The posting service, drafts and the reversing admin action over the      *)
(* accounts Bank and Sales, with room for a posted transaction and its      *)
(* reversal.                                                                *)

RevMaxTx == 2

RevAccounts == {Bank, Sales}

\* the dates a user may want a reversal to carry
RevDates == {1, 2}

RevLineIn ==
    {[account |-> a, debit |-> p[1], credit |-> p[2]] : a \in RevAccounts, p \in AmountsIn}

\* the two-line lists a caller supplies
RevPairs == {<<a, b>> : a \in RevLineIn, b \in RevLineIn}

\* what the user saw of a reversal of transaction t asked for with date d in
\* mind
Reversed(result, t, d) ==
    [op |-> "admin_reverse", result |-> result, source |-> t, reversal_date |-> d]

RevCreateAndPost ==
    \E h \in Headers, seq \in RevPairs :
        /\ nextTx <= RevMaxTx
        /\ \E c \in {create_and_post_transaction(txs, lines, nextTx, h, seq)} :
           /\ txs' = c.store[1]
           /\ lines' = c.store[2]
           /\ nextTx' = IF nextTx \in DOMAIN c.store[1] THEN nextTx + 1 ELSE nextTx
           /\ last' = Outcome("create_and_post", c.result)

\* Transaction.objects.create followed by EntryLine.objects.create for each
\* line of a list: a draft, without lines or with two lines ready to post
RevDraft ==
    \E h \in Headers, seq \in {<<>>} \cup RevPairs :
        /\ nextTx <= RevMaxTx
        /\ \A k \in 1 .. Len(seq) : ConstraintsHold(seq[k]) /\ EntryLine_clean(seq[k])
        /\ Len(seq) > 0 => Transaction_clean(NewLines(nextTx, seq, Len(seq)), nextTx)
        /\ txs' = txs @@ (nextTx :> Transaction_row(h))
        /\ lines' = lines (+) NewLines(nextTx, seq, Len(seq))
        /\ nextTx' = nextTx + 1
        /\ last' = Outcome("create", "ok")

\* the admin action on a selection holding t; the handler takes the request
\* and the selection and reads no date from either, whatever date d the user
\* wants
RevReverse ==
    \E t \in DOMAIN txs, d \in RevDates :
        /\ txs[t].posted => nextTx <= RevMaxTx
        /\ \E a \in {action_reverse_transaction(txs, lines, nextTx, t)} :
           /\ txs' = a.store[1]
           /\ lines' = a.store[2]
           /\ nextTx' = IF nextTx \in DOMAIN a.store[1] THEN nextTx + 1 ELSE nextTx
           /\ last' = Reversed(a.result, t, d)

RevNext ==
    \/ RevCreateAndPost
    \/ RevDraft
    \/ RevReverse

SpecRev == Init /\ [][RevNext]_vars

\* a bag of <<account, debit, credit>> with the two amounts exchanged
Mirror(b) == [v \in {<<w[1], w[3], w[2]>> : w \in DOMAIN b} |-> b[<<v[1], v[3], v[2]>>]]

\* C11: in every reachable state, reversing a posted transaction t whose
\* stored lines pass the transaction check succeeds, and a reversal of a
\* posted t that succeeds creates a transaction r with a pk no stored
\* transaction has, in the journal of t, posted, owning one line per line
\* of t with the same account and with debit and credit exchanged; t, its
\* lines and every other stored transaction are unchanged.
C11_ReversalCorrect ==
    \A t \in DOMAIN txs :
        txs[t].posted =>
        \A c \in {action_reverse_transaction(txs, lines, nextTx, t)} :
            /\ Transaction_clean(lines, t) => c.result = "ok"
            /\ c.result = "ok" =>
                  /\ nextTx \notin DOMAIN txs
                  /\ DOMAIN c.store[1] = DOMAIN txs \cup {nextTx}
                  /\ c.store[1][nextTx].journal = txs[t].journal
                  /\ c.store[1][nextTx].posted
                  /\ Owned(c.store[2], nextTx) = Mirror(Owned(lines, t))
                  /\ \A u \in DOMAIN txs :
                        /\ c.store[1][u] = txs[u]
                        /\ LinesOf(c.store[2], u) = LinesOf(lines, u)

\* a reversal has just succeeded on a transaction that debits one account
\* and credits the other
C11_Witness ==
    /\ last.op = "admin_reverse"
    /\ last.result = "ok"
    /\ \E r \in DOMAIN LinesOf(lines, last.source) : r.debit > 0
    /\ Owned(lines, nextTx - 1) = Mirror(Owned(lines, last.source))
    /\ Owned(lines, nextTx - 1) # Owned(lines, last.source)

\* C12: in every reachable state, reversing a transaction that is not posted
\* is refused with the "is not posted" warning and returns the tables as
\* they were; every step of the reversing action that ends refused leaves
\* the stored transactions and lines, t among them, exactly as they were.
C12_ReverseDraftRefused ==
    /\ [](\A t \in DOMAIN txs :
            ~txs[t].posted =>
            \A c \in {action_reverse_transaction(txs, lines, nextTx, t)} :
                c.result = "skipped" /\ c.store = <<txs, lines>>)
    /\ [][(last'.op = "admin_reverse" /\ ~txs[last'.source].posted)
              => (last'.result = "skipped" /\ txs' = txs /\ lines' = lines)]_vars

\* the reversing action has just been refused on a draft whose two lines
\* would pass the transaction check
C12_Witness ==
    /\ last.op = "admin_reverse"
    /\ last.result = "skipped"
    /\ ~txs[last.source].posted
    /\ Transaction_clean(lines, last.source)
    /\ \E r \in DOMAIN LinesOf(lines, last.source) : r.debit > 0

\* C13: the transaction created by a successful reversal carries the date
\* the user wanted the reversal to have.
C13_ReversalDated ==
    (last.op = "admin_reverse" /\ last.result = "ok")
        => txs[nextTx - 1].tx_date = last.reversal_date

\* the rows of every section of a balance sheet
SheetRows(rep) ==
    {rep.assets[k] : k \in 1 .. Len(rep.assets)}
    \cup {rep.liabilities[k] : k \in 1 .. Len(rep.liabilities)}
    \cup {rep.equity[k] : k \in 1 .. Len(rep.equity)}

\* the amount a balance sheet shows under a code, "none" when it has no row
\* for it
Shown(rep, code) ==
    IF \E w \in SheetRows(rep) : w.code = code
    THEN (CHOOSE w \in SheetRows(rep) : w.code = code).amount
    ELSE "none"

\* two shown amounts are the same amount: the same text, or both nothing
SameAmount(s, u) == s = u \/ ({s, u} \subseteq {"none", "0", "0.00"})

\* the tables without the transactions of T and their lines
Without(T) ==
    <<[u \in DOMAIN txs \ T |-> txs[u]],
      [x \in {y \in DOMAIN lines : y.transaction \notin T} |-> lines[x]]>>

\* C14: right after a successful reversal of t, for every account the sum
\* of debit - credit over the lines of t and of its reversal is 0, and for
\* every as_of on or after both dates the balance sheet shows under every
\* account code and under RETAINED, and in both totals, the same amount as
\* the balance sheet of the tables without t and its reversal.
C14_ReverseNetsToZero ==
    (last.op = "admin_reverse" /\ last.result = "ok") =>
    \A T \in {{last.source, nextTx - 1}} :
        /\ \A a \in RevAccounts :
              SumDebit([x \in {y \in DOMAIN lines :
                                 y.transaction \in T /\ y.account = a} |-> lines[x]])
              = SumCredit([x \in {y \in DOMAIN lines :
                                 y.transaction \in T /\ y.account = a} |-> lines[x]])
        /\ \A as_of \in RevDates :
              (\A u \in T : txs[u].tx_date <= as_of) =>
              \A with \in {balance_sheet(txs, lines, as_of)},
                 without \in {balance_sheet(Without(T)[1], Without(T)[2], as_of)} :
                  /\ \A code \in {a.code : a \in RevAccounts} \cup {RETAINED} :
                        SameAmount(Shown(with, code), Shown(without, code))
                  /\ SameAmount(with.totals.assets, without.totals.assets)
                  /\ SameAmount(with.totals.liabilities_plus_equity,
                                without.totals.liabilities_plus_equity)
                  /\ with.totals.balanced = without.totals.balanced

\* a transaction that debits Bank and credits Sales has just been reversed
\* and the balance sheet lists Bank with nothing left on it
C14_Witness ==
    /\ last.op = "admin_reverse"
    /\ last.result = "ok"
    /\ \E r \in DOMAIN LinesOf(lines, last.source) : r.account = Bank /\ r.debit > 0
    /\ \E r \in DOMAIN LinesOf(lines, last.source) : r.account = Sales /\ r.credit > 0
    /\ \E d \in RevDates : Shown(balance_sheet(txs, lines, d), Bank.code) = "0.00"

(* ----------------------- reporting specification ---------------------- *)
(* The reports over the ledger of ReportTests.setUp (a sale of 100.00 on    *)
(* 10 August, a bagel for 30.00 on 11 August) and the transactions added    *)
(* to it: posted by the service, or drafts that are created, edited and     *)
(* deleted.                                                                 *)

RepMaxTx == 1

RepAccounts == {Bank, Sales, Food}

RepDates == {10, 11}

RepHeaders == [journal : Journals, tx_date : RepDates, memo : Memos]

\* the amount of a new line, in cents
RepAmounts == {10000}

RepLineIn ==
    {[account |-> a, debit |-> x, credit |-> 0] : a \in RepAccounts, x \in RepAmounts}
    \cup {[account |-> a, debit |-> 0, credit |-> x] : a \in RepAccounts, x \in RepAmounts}

RepPairs == {<<a, b>> : a \in RepLineIn, b \in RepLineIn}

\* the tables after ReportTests.setUp
setUp ==
    LET sale == create_and_post_transaction(
                    <<>>, EmptyBag, 1,
                    [journal |-> "GENERAL", tx_date |-> 10, memo |-> "Sale"],
                    <<[account |-> Bank, debit |-> 10000, credit |-> 0],
                      [account |-> Sales, debit |-> 0, credit |-> 10000]>>).store
    IN  create_and_post_transaction(
            sale[1], sale[2], 2,
            [journal |-> "GENERAL", tx_date |-> 11, memo |-> "Bagel"],
            <<[account |-> Food, debit |-> 3000, credit |-> 0],
              [account |-> Bank, debit |-> 0, credit |-> 3000]>>).store

RepInit ==
    /\ txs = setUp[1]
    /\ lines = setUp[2]
    /\ nextTx = Cardinality(DOMAIN setUp[1]) + 1
    /\ last = Outcome("init", "ok")

\* room for one more transaction next to those of setUp
RepRoom == nextTx <= Cardinality(DOMAIN setUp[1]) + RepMaxTx

RepPost ==
    \E h \in RepHeaders, seq \in RepPairs :
        /\ RepRoom
        /\ \E c \in {create_and_post_transaction(txs, lines, nextTx, h, seq)} :
           /\ txs' = c.store[1]
           /\ lines' = c.store[2]
           /\ nextTx' = IF nextTx \in DOMAIN c.store[1] THEN nextTx + 1 ELSE nextTx
           /\ last' = Outcome("create_and_post", c.result)

\* Transaction.objects.create followed by EntryLine.objects.create for each
\* of two lines: a draft
RepDraft ==
    \E h \in RepHeaders, seq \in RepPairs :
        /\ RepRoom
        /\ \A k \in 1 .. Len(seq) : ConstraintsHold(seq[k])
        /\ txs' = txs @@ (nextTx :> Transaction_row(h))
        /\ lines' = lines (+) NewLines(nextTx, seq, Len(seq))
        /\ nextTx' = nextTx + 1
        /\ last' = Outcome("create", "ok")

\* line.save() of a line of a draft after assigning its fields
RepDraftEdit ==
    \E r \in DOMAIN lines, l \in RepLineIn :
        /\ ~txs[r.transaction].posted
        /\ ConstraintsHold(l)
        /\ lines' = (lines (-) One(r)) (+) One(EntryLine_row(r.transaction, l))
        /\ last' = Outcome("line_update", "ok")
        /\ UNCHANGED <<txs, nextTx>>

\* the admin delete view on a draft: the row goes and its lines with it
RepDraftDelete ==
    \E t \in DOMAIN txs :
        /\ has_delete_permission(txs, t)
        /\ txs' = [u \in DOMAIN txs \ {t} |-> txs[u]]
        /\ lines' = [r \in {x \in DOMAIN lines : x.transaction # t} |-> lines[r]]
        /\ last' = Outcome("delete", "ok")
        /\ UNCHANGED nextTx

RepNext ==
    \/ RepPost
    \/ RepDraft
    \/ RepDraftEdit
    \/ RepDraftDelete

SpecRep == RepInit /\ [][RepNext]_vars

\* the amount a section lists under a code, "none" when it has no row for it
Listed(rows, code) ==
    IF \E k \in 1 .. Len(rows) : rows[k].code = code
    THEN rows[CHOOSE k \in 1 .. Len(rows) : rows[k].code = code].amount
    ELSE "none"

\* the text s is the amount of n cents
Denotes(s, n) == s = DecStr(Stored(n)) \/ (n = 0 /\ s = "0")

\* the stored line x belongs to a posted transaction dated within the
\* window; start is {} when the window has no lower bound
InWindow(x, start, end) ==
    /\ txs[x.transaction].posted
    /\ \A s \in start : s <= txs[x.transaction].tx_date
    /\ txs[x.transaction].tx_date <= end

\* the stored lines on account a within the window
WindowLines(a, start, end) ==
    [x \in {y \in DOMAIN lines : y.account = a /\ InWindow(y, start, end)} |-> lines[x]]

\* debit - credit over them, with the sign the account is displayed with
WindowAmount(a, start, end) ==
    IF a.normal_debit
    THEN SumDebit(WindowLines(a, start, end)) - SumCredit(WindowLines(a, start, end))
    ELSE SumCredit(WindowLines(a, start, end)) - SumDebit(WindowLines(a, start, end))

\* the section lists account a exactly when a line on it is in the window,
\* with the amount of the lines in the window
ListsWindow(rows, a, start, end) ==
    IF WindowLines(a, start, end) = EmptyBag
    THEN Listed(rows, a.code) = "none"
    ELSE Denotes(Listed(rows, a.code), WindowAmount(a, start, end))

\* C16: in every reachable state, for every window start <= end the income
\* statement lists an Income or Expense account exactly when one of its
\* lines belongs to a posted transaction dated from start to end, both
\* included, with the amount of those lines only, and for every as_of the
\* balance sheet lists an Asset, Liability or Equity account exactly when
\* one of its lines belongs to a posted transaction dated as_of or earlier,
\* with the amount of those lines only; a step that creates, edits or
\* deletes a draft changes no income statement and no balance sheet.
C16_PostedInWindowOnly ==
    /\ [](/\ \A start \in RepDates, end \in RepDates :
                start <= end =>
                \A rep \in {income_statement(txs, lines, start, end)} :
                    \A a \in RepAccounts :
                        /\ a.type = "INC" => ListsWindow(rep.income, a, {start}, end)
                        /\ a.type = "EXP" => ListsWindow(rep.expenses, a, {start}, end)
          /\ \A as_of \in RepDates :
                \A rep \in {balance_sheet(txs, lines, as_of)} :
                    \A a \in RepAccounts :
                        /\ a.type = "ASSET" => ListsWindow(rep.assets, a, {}, as_of)
                        /\ a.type = "LIAB" => ListsWindow(rep.liabilities, a, {}, as_of)
                        /\ a.type = "EQTY" => ListsWindow(rep.equity, a, {}, as_of))
    /\ [][last'.op \in {"create", "line_update", "delete"} =>
             /\ \A start \in RepDates, end \in RepDates :
                   start <= end =>
                   income_statement(txs', lines', start, end)
                       = income_statement(txs, lines, start, end)
             /\ \A as_of \in RepDates :
                   balance_sheet(txs', lines', as_of) = balance_sheet(txs, lines, as_of)]_vars

\* a draft with a line on Sales dated 10 August has just been edited, next
\* to a posted sale of 10 August and a posted purchase of 11 August: the
\* income statement of 10 August lists Sales with 100.00 and no expense
C16_Witness ==
    /\ last.op = "line_update"
    /\ \E x \in DOMAIN lines :
          /\ ~txs[x.transaction].posted
          /\ txs[x.transaction].tx_date = 10
          /\ x.account = Sales
    /\ Listed(income_statement(txs, lines, 10, 10).income, Sales.code) = "100.00"
    /\ income_statement(txs, lines, 10, 10).expenses = <<>>
    /\ Listed(income_statement(txs, lines, 10, 11).expenses, Food.code) = "30.00"

(* ------------------------- chart specification ------------------------ *)
(* The ledger of ReportTests.setUp under a chart that holds accounts of     *)
(* every type, with the usual normal balance and without it, and the       *)
(* transactions the service posts and the admin reverses on it.            *)

ChartMaxTx == 1

Payable == Account(<<50, 48, 48, 48>>, "Accounts Payable", "LIAB", FALSE)

Capital == Account(<<51, 48, 48, 48>>, "Capital", "EQTY", FALSE)

Supplies == Account(<<53, 48, 48, 48>>, "Office Supplies", "EXP", TRUE)

\* accounts entered through AccountAdmin: the two contra types, and an asset
\* flagged credit-normal
AccDep == Account(<<49, 53, 57, 48>>, "Accumulated Depreciation", "C_ASSET", FALSE)

Discount == Account(<<50, 57, 48, 48>>, "Discount on Notes", "C_LIAB", TRUE)

Suspense == Account(<<49, 57, 57, 57>>, "Suspense", "ASSET", FALSE)

ChartAccounts ==
    {Bank, Sales, Food, Payable, Capital, Supplies, AccDep, Discount, Suspense}

\* a debit of one account against a credit of another
ChartPairs ==
    {<<[account |-> a, debit |-> x, credit |-> 0],
       [account |-> b, debit |-> 0, credit |-> x]>> :
        a \in ChartAccounts, b \in ChartAccounts, x \in RepAmounts}

\* the dates a report is asked for
ReportDates == {1, 10, 11}

ChartRoom == nextTx <= Cardinality(DOMAIN setUp[1]) + ChartMaxTx

ChartPost ==
    \E h \in RepHeaders, seq \in ChartPairs :
        /\ ChartRoom
        /\ \E c \in {create_and_post_transaction(txs, lines, nextTx, h, seq)} :
           /\ txs' = c.store[1]
           /\ lines' = c.store[2]
           /\ nextTx' = IF nextTx \in DOMAIN c.store[1] THEN nextTx + 1 ELSE nextTx
           /\ last' = Outcome("create_and_post", c.result)

ChartReverse ==
    \E t \in DOMAIN txs :
        /\ ChartRoom
        /\ \E a \in {action_reverse_transaction(txs, lines, nextTx, t)} :
           /\ txs' = a.store[1]
           /\ lines' = a.store[2]
           /\ nextTx' = IF nextTx \in DOMAIN a.store[1] THEN nextTx + 1 ELSE nextTx
           /\ last' = Outcome("admin_reverse", a.result)

ChartNext ==
    \/ ChartPost
    \/ ChartReverse

SpecChart == RepInit /\ [][ChartNext]_vars

\* an account of one of the five types the reports read, with the normal
\* balance of its type
Conventional(a) ==
    \/ a.type \in {"ASSET", "EXP"} /\ a.normal_debit
    \/ a.type \in {"LIAB", "EQTY", "INC"} /\ ~a.normal_debit

\* C15 as stated: in every reachable state and for every as_of the balance
\* sheet is balanced.
C15_AlwaysBalanced ==
    \A as_of \in ReportDates : balance_sheet(txs, lines, as_of).totals.balanced

\* C15 as amended: in every reachable state and for every as_of such that
\* every line of a posted transaction dated as_of or earlier is on an
\* Asset or Expense account flagged debit-normal or on a Liability, Equity
\* or Income account flagged credit-normal, the balance sheet is balanced.
C15_BalancedOnConventionalChart ==
    \A as_of \in ReportDates :
        (\A x \in DOMAIN lines : InWindow(x, {}, as_of) => Conventional(x.account))
            => balance_sheet(txs, lines, as_of).totals.balanced

\* next to the sale and the purchase, Payable has been debited against
\* Capital: the balance sheet of 11 August lists the three sections and is
\* balanced
C15_Witness ==
    /\ \E x \in DOMAIN lines : x.account = Payable /\ InWindow(x, {}, 11)
    /\ \E x \in DOMAIN lines : x.account = Capital /\ InWindow(x, {}, 11)
    /\ \A x \in DOMAIN lines : Conventional(x.account)
    /\ Listed(balance_sheet(txs, lines, 11).assets, Bank.code) = "70.00"
    /\ balance_sheet(txs, lines, 11).totals.balanced

\* debit - credit over the lines of the accounts of A in the window, each
\* account with the sign it is displayed with
RECURSIVE WindowTotal(_, _, _)
WindowTotal(A, start, end) ==
    IF A = {} THEN 0
    ELSE LET a == CHOOSE x \in A : TRUE
         IN  WindowAmount(a, start, end) + WindowTotal(A \ {a}, start, end)

\* the accounts of the chart of a type
Typed(type) == {a \in ChartAccounts : a.type = type}

\* C17: in every reachable state every row of every income statement and
\* balance sheet shows, for its account, the sum of debit - credit over
\* the selected lines of the account when the account is debit-normal and
\* the negated sum when it is not, and every total is the sum of the
\* amounts so displayed: income and expense totals and their difference,
\* the assets total, and liabilities plus equity plus retained earnings.
C17_DisplaySign ==
    /\ \A start \in ReportDates, end \in ReportDates :
          start <= end =>
          \A rep \in {income_statement(txs, lines, start, end)} :
              /\ \A a \in Typed("INC") :
                    Listed(rep.income, a.code) # "none" =>
                        Denotes(Listed(rep.income, a.code), WindowAmount(a, {start}, end))
              /\ \A a \in Typed("EXP") :
                    Listed(rep.expenses, a.code) # "none" =>
                        Denotes(Listed(rep.expenses, a.code), WindowAmount(a, {start}, end))
              /\ Denotes(rep.totals.income, WindowTotal(Typed("INC"), {start}, end))
              /\ Denotes(rep.totals.expense, WindowTotal(Typed("EXP"), {start}, end))
              /\ Denotes(rep.totals.net_income,
                         WindowTotal(Typed("INC"), {start}, end)
                             - WindowTotal(Typed("EXP"), {start}, end))
    /\ \A as_of \in ReportDates :
          \A rep \in {balance_sheet(txs, lines, as_of)} :
              /\ \A a \in Typed("ASSET") :
                    Listed(rep.assets, a.code) # "none" =>
                        Denotes(Listed(rep.assets, a.code), WindowAmount(a, {}, as_of))
              /\ \A a \in Typed("LIAB") :
                    Listed(rep.liabilities, a.code) # "none" =>
                        Denotes(Listed(rep.liabilities, a.code), WindowAmount(a, {}, as_of))
              /\ \A a \in Typed("EQTY") :
                    Listed(rep.equity, a.code) # "none" =>
                        Denotes(Listed(rep.equity, a.code), WindowAmount(a, {}, as_of))
              /\ Denotes(rep.totals.assets, WindowTotal(Typed("ASSET"), {}, as_of))
              /\ Denotes(rep.totals.liabilities_plus_equity,
                         WindowTotal(Typed("LIAB"), {}, as_of)
                             + WindowTotal(Typed("EQTY"), {}, as_of)
                             + WindowTotal(Typed("INC"), {}, as_of)
                             - WindowTotal(Typed("EXP"), {}, as_of))

\* a debit of the debit-normal asset Bank against a credit of the
\* credit-normal Capital is posted on 10 August: the balance sheet of that
\* day shows 200.00 on Bank and 100.00 on Capital, and the income statement
\* of that day shows the credit of 100.00 to Sales as 100.00
C17_Witness ==
    /\ \E x \in DOMAIN lines :
          x.account = Capital /\ x.credit = 10000 /\ InWindow(x, {10}, 10)
    /\ Listed(balance_sheet(txs, lines, 10).assets, Bank.code) = "200.00"
    /\ Listed(balance_sheet(txs, lines, 10).equity, Capital.code) = "100.00"
    /\ Listed(income_statement(txs, lines, 10, 10).income, Sales.code) = "100.00"

\* the codes of the rows of a section ascend strictly
Ascending(rows) ==
    \A k \in 1 .. (Len(rows) - 1) : CodeLess(rows[k].code, rows[k + 1].code)

\* the accounts of a type with a line in the window
Active(type, start, end) ==
    {a \in Typed(type) : WindowLines(a, {start}, end) # EmptyBag}

\* C18: in every reachable state and for every window start <= end the
\* income section of the income statement has one row per Income account
\* with a line in the window and no other row, the expenses section one
\* row per Expense account with a line in the window and no other row,
\* each section in ascending order of account code; totals.income is the
\* sum of the amounts of the Income rows, totals.expense the sum of the
\* amounts of the Expense rows, and totals.net_income is totals.income
\* less totals.expense.
C18_IncomeStatementTotals ==
    \A start \in ReportDates, end \in ReportDates :
        start <= end =>
        \A rep \in {income_statement(txs, lines, start, end)} :
            /\ {rep.income[k].code : k \in 1 .. Len(rep.income)}
                   = {a.code : a \in Active("INC", start, end)}
            /\ Len(rep.income) = Cardinality(Active("INC", start, end))
            /\ {rep.expenses[k].code : k \in 1 .. Len(rep.expenses)}
                   = {a.code : a \in Active("EXP", start, end)}
            /\ Len(rep.expenses) = Cardinality(Active("EXP", start, end))
            /\ Ascending(rep.income)
            /\ Ascending(rep.expenses)
            /\ \A a \in Active("INC", start, end) :
                  Denotes(Listed(rep.income, a.code), WindowAmount(a, {start}, end))
            /\ \A a \in Active("EXP", start, end) :
                  Denotes(Listed(rep.expenses, a.code), WindowAmount(a, {start}, end))
            /\ Denotes(rep.totals.income,
                       WindowTotal(Active("INC", start, end), {start}, end))
            /\ Denotes(rep.totals.expense,
                       WindowTotal(Active("EXP", start, end), {start}, end))
            /\ \E i \in {WindowTotal(Active("INC", start, end), {start}, end)},
                  e \in {WindowTotal(Active("EXP", start, end), {start}, end)} :
                      /\ Denotes(rep.totals.income, i)
                      /\ Denotes(rep.totals.expense, e)
                      /\ Denotes(rep.totals.net_income, i - e)

\* Office Supplies has been debited against Bank on 11 August: the income
\* statement of 10 August has the sale alone, income 100.00, no expense
\* and net income 100.00; the one of 1 to 11 August lists Office Supplies
\* before Food, and net income is 100.00 - 130.00
C18_Witness ==
    /\ income_statement(txs, lines, 10, 10).totals
           = [income |-> "100.00", expense |-> "0", net_income |-> "100.00"]
    /\ Len(income_statement(txs, lines, 1, 11).expenses) = 2
    /\ income_statement(txs, lines, 1, 11).expenses[1].code = Supplies.code
    /\ income_statement(txs, lines, 1, 11).expenses[2].code = Food.code
    /\ income_statement(txs, lines, 1, 11).totals
           = [income |-> "100.00", expense |-> "130.00", net_income |-> "-30.00"]

\* no posted transaction is dated before start
NotLaterThanEarliest(start) ==
    \A t \in DOMAIN txs : txs[t].posted => start <= txs[t].tx_date

\* C19: in every reachable state and for every as_of, the balance sheet
\* has exactly one row coded RETAINED, the last row of its equity section,
\* after one row per Equity account with a posted line dated as_of or
\* earlier; its amount is the sum of the displayed amounts of the Income
\* accounts less that of the Expense accounts over the posted lines dated
\* as_of or earlier, and is the net income of the income statement from
\* start to as_of for every start not later than the earliest posted
\* transaction; liabilities_plus_equity is the sum of the Liability rows,
\* the Equity rows and this amount.
C19_RetainedEarnings ==
    \A as_of \in ReportDates :
        \A rep \in {balance_sheet(txs, lines, as_of)} :
            /\ Cardinality({k \in 1 .. Len(rep.equity) : rep.equity[k].code = RETAINED}) = 1
            /\ rep.equity[Len(rep.equity)].code = RETAINED
            /\ Len(rep.equity) =
                  Cardinality({a \in Typed("EQTY") : WindowLines(a, {}, as_of) # EmptyBag}) + 1
            /\ Denotes(Listed(rep.equity, RETAINED),
                       WindowTotal(Typed("INC"), {}, as_of)
                           - WindowTotal(Typed("EXP"), {}, as_of))
            /\ \A start \in ReportDates :
                  NotLaterThanEarliest(start) =>
                      Listed(rep.equity, RETAINED)
                          = income_statement(txs, lines, start, as_of).totals.net_income
            /\ Denotes(rep.totals.liabilities_plus_equity,
                       WindowTotal(Typed("LIAB"), {}, as_of)
                           + WindowTotal(Typed("EQTY"), {}, as_of)
                           + (WindowTotal(Typed("INC"), {}, as_of)
                                 - WindowTotal(Typed("EXP"), {}, as_of)))

\* Bank has been debited against Capital: the balance sheet of 11 August
\* lists Capital with 100.00 and then retained earnings of 100.00 - 30.00,
\* the net income of 10 to 11 August, and totals 170.00 on both sides
C19_Witness ==
    /\ Len(balance_sheet(txs, lines, 11).equity) = 2
    /\ balance_sheet(txs, lines, 11).equity[1].code = Capital.code
    /\ balance_sheet(txs, lines, 11).equity[1].amount = "100.00"
    /\ balance_sheet(txs, lines, 11).equity[2].amount = "70.00"
    /\ income_statement(txs, lines, 10, 11).totals.net_income = "70.00"
    /\ balance_sheet(txs, lines, 11).totals.liabilities_plus_equity = "170.00"
    /\ balance_sheet(txs, lines, 11).totals.assets = "170.00"

(* ---------------------- trial balance specification ------------------- *)
(* GET reports/trial-balance/ on the ledger of ReportTests.setUp.  A query  *)
(* parameter is <<>> when the query string does not have it and <<s>> when  *)
(* it has it with the text s.                                              *)

\* what request.query_params.get returns for the three parameters
QueryValues == {<<>>, <<"">>, <<"2025-08-10">>, <<"2025-08-11">>, <<"soon">>}

Queries == [as_of : QueryValues, from : QueryValues, to : QueryValues]

\* the truth value Python gives a parameter: None and "" are false
Truthy(p) == p # <<>> /\ p[1] # ""

\* date.fromisoformat accepts the text
IsoDate(s) == \E d \in 1 .. 31 : DateStr(d) = s

\* _parse_date(s) for a text date.fromisoformat accepts
parse_date(s) == CHOOSE d \in 1 .. 31 : DateStr(d) = s

\* the accounts of the selected lines, in code order
TrialAccounts(sel) ==
    sorted({[account_code |-> a.code, account_name |-> a.name] :
               a \in {r.account : r \in DOMAIN sel}})

\* the selected lines on the account with a code
TrialLines(sel, code) ==
    [r \in {x \in DOMAIN sel : x.account.code = code} |-> sel[r]]

\* rows that show the debit total in both columns
trial_balance_rows_single(sel) ==
    [k \in 1 .. Len(TrialAccounts(sel)) |->
        [code |-> TrialAccounts(sel)[k].account_code,
         name |-> TrialAccounts(sel)[k].account_name,
         debit_total |->
             DecStr(Stored(SumDebit(TrialLines(sel, TrialAccounts(sel)[k].account_code)))),
         credit_total |->
             DecStr(Stored(SumDebit(TrialLines(sel, TrialAccounts(sel)[k].account_code))))]]

\* the rows of a trial balance: per account the raw debit and credit totals
\* of the selected lines
trial_balance_rows(sel) ==
    [k \in 1 .. Len(TrialAccounts(sel)) |->
        [code |-> TrialAccounts(sel)[k].account_code,
         name |-> TrialAccounts(sel)[k].account_name,
         debit_total |->
             DecStr(Stored(SumDebit(TrialLines(sel, TrialAccounts(sel)[k].account_code)))),
         credit_total |->
             DecStr(Stored(SumCredit(TrialLines(sel, TrialAccounts(sel)[k].account_code))))]]

trial_balance_as_of(tt, ls, as_of) == trial_balance_rows(iter_lines(tt, ls, {}, as_of))

trial_balance_period(tt, ls, start, end) ==
    trial_balance_rows(iter_lines(tt, ls, {start}, end))

\* a view that lets as_of win over from and to
trial_balance_view_lenient(tt, ls, q) ==
    IF Truthy(q.as_of)
    THEN IF IsoDate(q.as_of[1])
         THEN [status |-> 200, data |-> trial_balance_as_of(tt, ls, parse_date(q.as_of[1]))]
         ELSE [status |-> 500, detail |-> "ValueError"]
    ELSE IF Truthy(q.from) /\ Truthy(q.to)
    THEN IF IsoDate(q.from[1]) /\ IsoDate(q.to[1])
         THEN [status |-> 200,
               data |-> trial_balance_period(tt, ls, parse_date(q.from[1]),
                                             parse_date(q.to[1]))]
         ELSE [status |-> 500, detail |-> "ValueError"]
    ELSE [status |-> 400, detail |-> "Required: 'as_of' OR 'from' and 'to' (YYYY-MM-DD)."]

\* trial_balance_view(request): the response, or the ValueError that
\* date.fromisoformat raises, which leaves the view as a server error
trial_balance_view(tt, ls, q) ==
    IF Truthy(q.as_of) /\ (Truthy(q.from) \/ Truthy(q.to))
    THEN [status |-> 400, detail |-> "Provide either 'as_of' or 'from'+'to', not both."]
    ELSE IF Truthy(q.as_of)
    THEN IF IsoDate(q.as_of[1])
         THEN [status |-> 200, data |-> trial_balance_as_of(tt, ls, parse_date(q.as_of[1]))]
         ELSE [status |-> 500, detail |-> "ValueError"]
    ELSE IF Truthy(q.from) /\ Truthy(q.to)
    THEN IF IsoDate(q.from[1]) /\ IsoDate(q.to[1])
         THEN [status |-> 200,
               data |-> trial_balance_period(tt, ls, parse_date(q.from[1]),
                                             parse_date(q.to[1]))]
         ELSE [status |-> 500, detail |-> "ValueError"]
    ELSE [status |-> 400, detail |-> "Required: 'as_of' OR 'from' and 'to' (YYYY-MM-DD)."]

TrialBalance ==
    \E q \in Queries :
        /\ last' = [op |-> "trial_balance", query |-> q,
                    response |-> trial_balance_view(txs, lines, q)]
        /\ UNCHANGED <<txs, lines, nextTx>>

TrialNext == TrialBalance

SpecTrial == RepInit /\ [][TrialNext]_vars

\* the parameter is given a value
Given(p) == p # <<>> /\ p # <<"">>

\* C20: a trial balance request passes the argument check exactly when
\* as_of is given without from and to, or from and to are both given
\* without as_of; a request that does not pass is answered 400 with a
\* message and no report.
C20_TrialBalanceArguments ==
    last.op = "trial_balance" =>
        /\ last.response.status # 400
              <=> \/ Given(last.query.as_of) /\ ~Given(last.query.from)
                                             /\ ~Given(last.query.to)
                  \/ ~Given(last.query.as_of) /\ Given(last.query.from)
                                              /\ Given(last.query.to)
        /\ last.response.status = 400 => DOMAIN last.response = {"status", "detail"}
        /\ (Given(last.query.as_of) /\ (Given(last.query.from) \/ Given(last.query.to)))
              => last.response.status = 400
        /\ (~Given(last.query.as_of) /\ ~(Given(last.query.from) /\ Given(last.query.to)))
              => last.response.status = 400

\* a request with as_of and to has just been refused
C20_Witness ==
    /\ last.op = "trial_balance"
    /\ last.query = [as_of |-> <<"2025-08-11">>, from |-> <<>>, to |-> <<"2025-08-11">>]
    /\ last.response.status = 400

\* ---------------------------------------------------------------------
\* trial balance cross-check
\* ---------------------------------------------------------------------

\* the rows of a trial balance for the account with a code
TrialRowsOf(rows, code) == {k \in 1 .. Len(rows) : rows[k].code = code}

\* the trial balance lists account a exactly when a line on it is in the
\* window, once, with the raw debit total and the raw credit total of the
\* lines in the window
TrialListsWindow(rows, a, start, end) ==
    \A w \in {WindowLines(a, start, end)} :
        IF w = EmptyBag
        THEN TrialRowsOf(rows, a.code) = {}
        ELSE /\ Cardinality(TrialRowsOf(rows, a.code)) = 1
             /\ \A k \in TrialRowsOf(rows, a.code) :
                   /\ rows[k].debit_total = DecStr(Stored(SumDebit(w)))
                   /\ rows[k].credit_total = DecStr(Stored(SumCredit(w)))

\* the debit total and the credit total of the window over a set of accounts
RECURSIVE WindowDebits(_, _, _)
WindowDebits(A, start, end) ==
    IF A = {} THEN 0
    ELSE LET a == CHOOSE x \in A : TRUE
         IN  SumDebit(WindowLines(a, start, end)) + WindowDebits(A \ {a}, start, end)

RECURSIVE WindowCredits(_, _, _)
WindowCredits(A, start, end) ==
    IF A = {} THEN 0
    ELSE LET a == CHOOSE x \in A : TRUE
         IN  SumCredit(WindowLines(a, start, end)) + WindowCredits(A \ {a}, start, end)

\* the accounts that stored lines are on
UsedAccounts == {x.account : x \in DOMAIN lines}

\* the trial balance is the cross-check of the window: every account with
\* stored lines is listed as the window requires, every row is the row of
\* such an account, and the two columns have the same sum
TrialCrossCheck(rows, start, end) ==
    \A A \in {UsedAccounts} :
        /\ \A a \in A : TrialListsWindow(rows, a, start, end)
        /\ \A k \in 1 .. Len(rows) : \E a \in A : rows[k].code = a.code
        /\ WindowDebits(A, start, end) = WindowCredits(A, start, end)

\* C21: in every reachable state, for every as_of and for every period
\* start <= end of posting dates, the trial balance lists every account
\* that has a line of a posted transaction in the window, and no other,
\* with the raw debit total and the raw credit total of those lines, and
\* the sum of the debit column equals the sum of the credit column.
C21_TrialBalanceCrossCheck ==
    /\ \A as_of \in ReportDates :
          \A rows \in {trial_balance_as_of(txs, lines, as_of)} :
              TrialCrossCheck(rows, {}, as_of)
    /\ \A start \in RepDates, end \in RepDates :
          start <= end =>
              \A rows \in {trial_balance_period(txs, lines, start, end)} :
                  TrialCrossCheck(rows, {start}, end)

\* next to the sale of 10 August and the purchase of 11 August, a debit of
\* Bank against a credit of Accumulated Depreciation is posted on 10
\* August: the trial balance as of 11 August shows Bank with 200.00 debit
\* and 30.00 credit, raw totals that differ from its displayed 170.00
C21_Witness ==
    /\ last.op = "create_and_post" /\ last.result = "ok"
    /\ \E x \in DOMAIN lines :
          x.account = AccDep /\ x.credit = 10000 /\ txs[x.transaction].tx_date = 10
    /\ \E k \in DOMAIN trial_balance_as_of(txs, lines, 11) :
          /\ trial_balance_as_of(txs, lines, 11)[k].code = Bank.code
          /\ trial_balance_as_of(txs, lines, 11)[k].debit_total = "200.00"
          /\ trial_balance_as_of(txs, lines, 11)[k].credit_total = "30.00"

\* ---------------------------------------------------------------------
\* concurrent posting specification: two callers post the same draft
\* while a third edits one of its lines. Every statement of a caller is
\* one step on the committed tables; last holds each caller's position.
\* ---------------------------------------------------------------------

\* the most lines the draft is given
RaceMaxLine == 3

\* the pk of the draft
RaceTx == 1

Posters == {"p1", "p2"}

\* the two ways to post: tx.post() and the admin action
Vias == {"post", "action_post"}

\* the draft the callers work on: a debit and a credit of the same amount
RaceDraft(a) ==
    One(EntryLine_row(RaceTx, [account |-> "1000", debit |-> a, credit |-> 0]))
        (+) One(EntryLine_row(RaceTx, [account |-> "1000", debit |-> 0, credit |-> a]))

RaceInit ==
    /\ \E h \in Headers : txs = (RaceTx :> Transaction_row(h))
    /\ \E a \in 1 .. MaxAmt : lines = RaceDraft(a)
    /\ nextTx = RaceTx + 1
    /\ last = [p1 |-> [pc |-> "idle", via |-> "none", result |-> "none"],
               p2 |-> [pc |-> "idle", via |-> "none", result |-> "none"],
               editor |-> [pc |-> "idle", edit |-> [kind |-> "none"], result |-> "none"]]

\* self.posted = True; self.save(update_fields=["posted"])
post_save(tt, t) == [tt EXCEPT ![t].posted = TRUE]

\* the caller fetches the transaction; the admin action skips a row it
\* fetched as posted, tx.post() does not look at the flag
PostLoad(p) ==
    \E via \in Vias :
        /\ last[p].pc = "idle"
        /\ IF via = "action_post" /\ txs[RaceTx].posted
           THEN last' = [last EXCEPT ![p] = [pc |-> "done", via |-> via, result |-> "skipped"]]
           ELSE last' = [last EXCEPT ![p] = [pc |-> "loaded", via |-> via, result |-> "none"]]
        /\ UNCHANGED <<txs, lines, nextTx>>

\* full_clean reads the lines as they are now: the admin action calls it
\* once itself and tx.post() calls it again
PostClean(p) ==
    /\ last[p].pc \in {"loaded", "checked"}
    /\ IF ~Transaction_clean(lines, RaceTx)
       THEN last' = [last EXCEPT ![p].pc = "done", ![p].result = "ValidationError"]
       ELSE IF last[p].via = "action_post" /\ last[p].pc = "loaded"
       THEN last' = [last EXCEPT ![p].pc = "checked"]
       ELSE last' = [last EXCEPT ![p].pc = "cleaned"]
    /\ UNCHANGED <<txs, lines, nextTx>>

\* the flag is written and the atomic block commits
PostSave(p) ==
    /\ last[p].pc = "cleaned"
    /\ txs' = post_save(txs, RaceTx)
    /\ last' = [last EXCEPT ![p].pc = "done", ![p].result = "ok"]
    /\ UNCHANGED <<lines, nextTx>>

\* the edits of a line of the draft: a new line, new amounts, a removal
Edits ==
    {[kind |-> "insert", line |-> l] : l \in LineIn}
    \cup {[kind |-> "update", row |-> r, line |-> l] : r \in DOMAIN lines, l \in LineIn}
    \cup {[kind |-> "delete", row |-> r] : r \in DOMAIN lines}

\* the editor fetches the draft and prepares an edit while it is a draft
EditStart ==
    \E e \in Edits :
        /\ last.editor.pc = "idle"
        /\ ~txs[RaceTx].posted
        /\ e.kind = "insert" => BagCardinality(lines) < RaceMaxLine
        /\ last' = [last EXCEPT !.editor = [pc |-> "started", edit |-> e, result |-> "none"]]
        /\ UNCHANGED <<txs, lines, nextTx>>

\* the rows after line.save() or line.delete(), which do not look at the
\* transaction
edit_save(ls, e) ==
    IF e.kind = "delete" THEN ls (-) One(e.row)
    ELSE IF e.kind = "update" THEN (ls (-) One(e.row)) (+) One(EntryLine_row(RaceTx, e.line))
    ELSE ls (+) One(EntryLine_row(RaceTx, e.line))

EditSave ==
    /\ last.editor.pc = "started"
    /\ IF last.editor.edit.kind # "delete" /\ ~ConstraintsHold(last.editor.edit.line)
       THEN /\ last' = [last EXCEPT !.editor.pc = "done", !.editor.result = "IntegrityError"]
            /\ UNCHANGED lines
       ELSE /\ lines' = edit_save(lines, last.editor.edit)
            /\ last' = [last EXCEPT !.editor.pc = "done", !.editor.result = "ok"]
    /\ UNCHANGED <<txs, nextTx>>

RaceNext ==
    \/ \E p \in Posters : PostLoad(p)
    \/ \E p \in Posters : PostClean(p)
    \/ \E p \in Posters : PostSave(p)
    \/ EditStart
    \/ EditSave

SpecRace == RaceInit /\ [][RaceNext]_vars

\* C22: when two callers have both finished posting the same draft, one
\* of them has succeeded and the other has failed with AlreadyPosted.
C22_ExactlyOnePostSucceeds ==
    (last.p1.pc = "done" /\ last.p2.pc = "done" /\ last.editor.pc = "idle") =>
        \E p \in Posters, q \in Posters :
            /\ p # q
            /\ last[p].result = "ok"
            /\ last[q].result = "AlreadyPosted"

\* both callers fetched the draft before either saved, both used
\* tx.post(), and both were told it succeeded
C22_BothSucceed ==
    /\ last.p1 = [pc |-> "done", via |-> "post", result |-> "ok"]
    /\ last.p2 = [pc |-> "done", via |-> "post", result |-> "ok"]
    /\ last.editor.pc = "idle"

\* C27: in every state reached by interleaving the posting of the draft
\* with an edit of one of its lines that started while it was a draft, a
\* posted transaction has at least two lines and equal debit and credit
\* totals.
C27_PostAtomicUnderEdits ==
    txs[RaceTx].posted => Transaction_clean(lines, RaceTx)

\* ---------------------------------------------------------------------
\* report snapshot specification: the posting service, the reversing
\* action and the posting of a draft run statement by statement while a
\* report may read the committed tables between any two statements. The
\* rows written inside "with dbtx.atomic()" stay with the caller, in last,
\* until the block commits.
\* ---------------------------------------------------------------------

\* the most transactions the callers create
SnapMaxTx == 3

\* the lines the callers supply: a debit of Bank, a credit of Sales, and a
\* line the store refuses
SnapLineIn ==
    {[account |-> Bank, debit |-> a, credit |-> 0] : a \in 1 .. MaxAmt}
    \cup {[account |-> Sales, debit |-> 0, credit |-> a] : a \in 1 .. MaxAmt}
    \cup {[account |-> Bank, debit |-> MaxAmt, credit |-> MaxAmt]}

SnapPairs == {<<a, b>> : a \in SnapLineIn, b \in SnapLineIn}

\* a posted sale, and no caller at work
SnapInit ==
    /\ \E h \in Headers :
          \E c \in {create_and_post_transaction(
                        <<>>, EmptyBag, 1, h,
                        <<[account |-> Bank, debit |-> 1, credit |-> 0],
                          [account |-> Sales, debit |-> 0, credit |-> 1]>>)} :
              /\ txs = c.store[1]
              /\ lines = c.store[2]
    /\ nextTx = 2
    /\ last = [svc |-> [pc |-> "idle"], poster |-> [pc |-> "idle"]]

\* create_and_post_transaction is called with a header and lines
SvcCall ==
    \E h \in Headers, seq \in SnapPairs :
        /\ last.svc.pc \in {"idle", "done"}
        /\ last' = [last EXCEPT !.svc = [pc |-> "begun", header |-> h, seq |-> seq]]
        /\ UNCHANGED <<txs, lines, nextTx>>

\* the reversing action reads the lines of a posted transaction and calls
\* the service with them swapped
SvcReverse ==
    \E t \in DOMAIN txs :
        /\ last.svc.pc \in {"idle", "done"}
        /\ txs[t].posted
        /\ last' = [last EXCEPT !.svc =
                       [pc |-> "begun",
                        header |-> [journal |-> txs[t].journal, tx_date |-> txs[t].tx_date,
                                    memo |-> ReversalMemo(t)],
                        seq |-> Swapped(BagToSeq(LinesOf(lines, t)))]]
        /\ UNCHANGED <<txs, lines, nextTx>>

\* Transaction.objects.create inside the block: the row stays uncommitted
SvcCreate ==
    /\ last.svc.pc = "begun"
    /\ nextTx <= SnapMaxTx
    /\ last' = [last EXCEPT !.svc =
                   [pc |-> "created", pk |-> nextTx,
                    row |-> Transaction_row(last.svc.header),
                    seq |-> last.svc.seq, own |-> EmptyBag, k |-> 0]]
    /\ nextTx' = nextTx + 1
    /\ UNCHANGED <<txs, lines>>

\* EntryLine.objects.create for the next line: an IntegrityError leaves the
\* block and rolls it back
SvcLine ==
    /\ last.svc.pc = "created"
    /\ last.svc.k < Len(last.svc.seq)
    /\ IF ConstraintsHold(last.svc.seq[last.svc.k + 1])
       THEN last' = [last EXCEPT
                        !.svc.own = @ (+) One(EntryLine_row(last.svc.pk,
                                                            last.svc.seq[last.svc.k + 1])),
                        !.svc.k = @ + 1]
       ELSE last' = [last EXCEPT !.svc = [pc |-> "done", result |-> "IntegrityError"]]
    /\ UNCHANGED <<txs, lines, nextTx>>

\* tx.full_clean() on the caller's own rows
SvcClean ==
    /\ last.svc.pc = "created"
    /\ last.svc.k = Len(last.svc.seq)
    /\ IF Transaction_clean(last.svc.own, last.svc.pk)
       THEN last' = [last EXCEPT !.svc.pc = "cleaned"]
       ELSE last' = [last EXCEPT !.svc = [pc |-> "done", result |-> "ValidationError"]]
    /\ UNCHANGED <<txs, lines, nextTx>>

\* tx.post() inside the block: the flag is set on the uncommitted row
SvcPost ==
    /\ last.svc.pc = "cleaned"
    /\ \E p \in {Transaction_post((last.svc.pk :> last.svc.row), last.svc.own, last.svc.pk)} :
          last' = [last EXCEPT !.svc.pc = "posted", !.svc.row = p.txs[last.svc.pk]]
    /\ UNCHANGED <<txs, lines, nextTx>>

\* the block is left: the transaction and its lines are committed together
SvcCommit ==
    /\ last.svc.pc = "posted"
    /\ txs' = txs @@ (last.svc.pk :> last.svc.row)
    /\ lines' = lines (+) last.svc.own
    /\ last' = [last EXCEPT !.svc = [pc |-> "done", result |-> "ok"]]
    /\ UNCHANGED nextTx

\* a draft is created outside any block, one draft at a time
DraftCreate ==
    \E h \in Headers :
        /\ nextTx <= SnapMaxTx
        /\ \A t \in DOMAIN txs : txs[t].posted
        /\ txs' = txs @@ (nextTx :> Transaction_row(h))
        /\ nextTx' = nextTx + 1
        /\ UNCHANGED <<lines, last>>

\* a line is added to a draft that nobody is posting
DraftLine ==
    \E t \in DOMAIN txs, l \in SnapLineIn :
        /\ ~txs[t].posted
        /\ last.poster.pc \in {"idle", "done"}
        /\ BagCardinality(LinesOf(lines, t)) < 2
        /\ ConstraintsHold(l)
        /\ lines' = lines (+) One(EntryLine_row(t, l))
        /\ UNCHANGED <<txs, nextTx, last>>

\* tx.post() on a draft: fetched, then checked, then latched
PosterStart ==
    \E t \in DOMAIN txs :
        /\ last.poster.pc \in {"idle", "done"}
        /\ ~txs[t].posted
        /\ last' = [last EXCEPT !.poster = [pc |-> "loaded", t |-> t]]
        /\ UNCHANGED <<txs, lines, nextTx>>

PosterClean ==
    /\ last.poster.pc = "loaded"
    /\ IF Transaction_clean(lines, last.poster.t)
       THEN last' = [last EXCEPT !.poster.pc = "cleaned"]
       ELSE last' = [last EXCEPT !.poster = [pc |-> "done", result |-> "ValidationError"]]
    /\ UNCHANGED <<txs, lines, nextTx>>

PosterSave ==
    /\ last.poster.pc = "cleaned"
    /\ txs' = post_save(txs, last.poster.t)
    /\ last' = [last EXCEPT !.poster = [pc |-> "done", result |-> "ok"]]
    /\ UNCHANGED <<lines, nextTx>>

SnapNext ==
    \/ SvcCall
    \/ SvcReverse
    \/ SvcCreate
    \/ SvcLine
    \/ SvcClean
    \/ SvcPost
    \/ SvcCommit
    \/ DraftCreate
    \/ DraftLine
    \/ PosterStart
    \/ PosterClean
    \/ PosterSave

SpecSnap == SnapInit /\ [][SnapNext]_vars

\* the lines a transaction has, committed or still with the service
AllLinesOf(t) ==
    IF last.svc.pc \in {"created", "cleaned", "posted"} /\ last.svc.pk = t
    THEN LinesOf(lines, t) (+) last.svc.own
    ELSE LinesOf(lines, t)

\* the transactions that exist, committed or still with the service
AllTx ==
    DOMAIN txs \cup (IF last.svc.pc \in {"created", "cleaned", "posted"}
                     THEN {last.svc.pk} ELSE {})

\* C23: in every state of every interleaving of the posting service, the
\* reversing action and the posting of a draft, a report that reads the
\* tables in that state counts of every transaction either no line or all
\* its lines, the bases it sums add up to zero over all accounts, and its
\* balance sheet balances.
C23_ReportSnapshot ==
    \A d \in Dates :
        \A sel \in {iter_lines(txs, lines, {}, d)} :
            /\ \A t \in AllTx :
                  LinesOf(sel, t) = EmptyBag \/ LinesOf(sel, t) = AllLinesOf(t)
            /\ amount_base(sel).cents = 0
            /\ \A s \in {accumulate(sel)} :
                  sum_display(OfType(s, "ASSET")).cents = sum_display(OfType(s, "INC")).cents
            /\ balance_sheet(txs, lines, d).totals.balanced

\* the service has written the transaction and one of its two lines inside
\* its block while a draft with a single line is stored: a report read now
\* counts the posted sale only, Bank 1 against Sales 1
C23_Witness ==
    /\ last.svc.pc = "created" /\ last.svc.k = 1
    /\ \E t \in DOMAIN txs : ~txs[t].posted /\ BagCardinality(LinesOf(lines, t)) = 1
    /\ iter_lines(txs, lines, {}, 1) = LinesOf(lines, 1)
    /\ balance_sheet(txs, lines, 1).totals.assets = "0.01"

\* ---------------------------------------------------------------------
\* entry line specification: callers supply every field of a line,
\* currency and base_amount included, to the posting service and to
\* line.save(), and posted transactions are reversed
\* ---------------------------------------------------------------------

\* the most transactions the ledger is given
LineMaxTx == 2

Currencies == {"EUR", "USD"}

\* the base_amount a caller supplies: the field default and a wrong amount
BasesIn == {0, 7}

\* debits of Bank and credits of Sales with every field supplied
CurDebits ==
    {[account |-> Bank, debit |-> a, credit |-> 0, currency |-> c, base_amount |-> b] :
        a \in 1 .. MaxAmt, c \in Currencies, b \in BasesIn}

CurCredits ==
    {[account |-> Sales, debit |-> 0, credit |-> a, currency |-> c, base_amount |-> b] :
        a \in 1 .. MaxAmt, c \in Currencies, b \in BasesIn}

CurPairs == {<<d, c>> : d \in CurDebits, c \in CurCredits}

\* the service is called with fully specified lines
LinePost ==
    \E h \in Headers, seq \in CurPairs :
        /\ nextTx <= LineMaxTx
        /\ \E c \in {create_and_post_transaction(txs, lines, nextTx, h, seq)} :
           /\ txs' = c.store[1]
           /\ lines' = c.store[2]
           /\ nextTx' = IF nextTx \in DOMAIN c.store[1] THEN nextTx + 1 ELSE nextTx
           /\ last' = [op |-> "create_and_post", result |-> c.result, supplied |-> seq]

\* line.currency = c; line.base_amount = b; line.save() on a stored line
LineSave ==
    \E r \in DOMAIN lines, c \in Currencies, b \in BasesIn :
        \E l \in {[account |-> r.account, debit |-> r.debit, credit |-> r.credit,
                   currency |-> c, base_amount |-> b]} :
            /\ lines' = (lines (-) One(r)) (+) One(EntryLine_row(r.transaction, l))
            /\ last' = [op |-> "line_save", result |-> "ok", supplied |-> <<l>>]
            /\ UNCHANGED <<txs, nextTx>>

\* the reversing admin action on a selection holding t
LineReverse ==
    \E t \in DOMAIN txs :
        /\ nextTx <= LineMaxTx
        /\ \E a \in {action_reverse_transaction(txs, lines, nextTx, t)} :
           /\ txs' = a.store[1]
           /\ lines' = a.store[2]
           /\ nextTx' = IF nextTx \in DOMAIN a.store[1] THEN nextTx + 1 ELSE nextTx
           /\ last' = [op |-> "admin_reverse", result |-> a.result, source |-> t]

LineNext ==
    \/ LinePost
    \/ LineSave
    \/ LineReverse

SpecLine == Init /\ [][LineNext]_vars

\* C24: in every reachable state every stored entry line has base_amount
\* equal to its debit minus its credit, whatever base_amount the caller
\* supplied to the service or assigned before line.save().
C24_BaseAmountDerived ==
    \A r \in DOMAIN lines : r.base_amount = r.debit - r.credit

\* the service has just stored a debit of 1 that the caller supplied with
\* base_amount 7: the stored line has base_amount 1
C24_Witness ==
    /\ last.op = "create_and_post" /\ last.result = "ok"
    /\ last.supplied[1].base_amount = 7 /\ last.supplied[1].debit = 1
    /\ \E r \in DOMAIN lines :
          /\ r.transaction = nextTx - 1
          /\ r.account = last.supplied[1].account
          /\ r.debit = 1 /\ r.base_amount = 1

\* the lines transaction t owns with their currency: how many have each
\* <<account, debit, credit, currency>>
OwnedTagged(ls, t) ==
    [v \in {<<r.account, r.debit, r.credit, r.currency>> : r \in DOMAIN LinesOf(ls, t)} |->
        BagCardinality([r \in {x \in DOMAIN LinesOf(ls, t) :
                                  <<x.account, x.debit, x.credit, x.currency>> = v}
                           |-> ls[r]])]

\* the same lines with debit and credit exchanged and the currency kept
MirrorTagged(b) ==
    [v \in {<<w[1], w[3], w[2], w[4]>> : w \in DOMAIN b} |-> b[<<v[1], v[3], v[2], v[4]>>]]

\* C30: after a reversal that succeeded, the reversal owns one line per
\* line of its source with the same account, debit and credit exchanged,
\* and the same currency.
C30_ReversalKeepsCurrency ==
    (last.op = "admin_reverse" /\ last.result = "ok") =>
        OwnedTagged(lines, nextTx - 1) = MirrorTagged(OwnedTagged(lines, last.source))

\* the submissions of the change page of transaction t that AdminChange
\* tries
SubmissionsOf(t) ==
    {Submission(HeaderOf(txs[t]), EmptyBag, <<>>, <<>>)}
    \cup {Submission(HeaderOf(txs[t]), d, <<>>, <<>>) :
             d \in SubBag(LinesOf(lines, t)) \ {EmptyBag}}
    \cup {Submission(HeaderOf(txs[t]), EmptyBag, << <<r, l>> >>, <<>>) :
             r \in DOMAIN LinesOf(lines, t), l \in LineIn}
    \cup {Submission(HeaderOf(txs[t]), EmptyBag, <<>>, <<l>>) : l \in LineIn}

\* the posting-time checker accepts the lines b of transaction t, every
\* one of them debit-only or credit-only
PostingAccepts(b, t) ==
    /\ Transaction_clean(b, t)
    /\ \A r \in DOMAIN LinesOf(b, t) : OneSided(r)

\* C25: in every reachable state, for every stored draft and every
\* submission of its change page, the form and formset checks accept the
\* submission exactly when the posting-time check would accept the lines
\* that survive it.
C25_CheckersAgree ==
    \A t \in {u \in DOMAIN txs : ~txs[u].posted} :
        \A sub \in SubmissionsOf(t) :
            FormSetValid(Forms(LinesOf(lines, t), sub), BagCardinality(LinesOf(lines, t)))
                <=> PostingAccepts(SavedLines(lines, t, sub), t)

\* a draft has two balanced lines, and the page submitted with both ticked
\* for deletion passes the form and formset checks although no line
\* survives
C25_DeleteAllAccepted ==
    \E t \in DOMAIN txs :
        /\ ~txs[t].posted
        /\ BagCardinality(LinesOf(lines, t)) = 2
        /\ FormSetValid(Forms(LinesOf(lines, t),
                              Submission(HeaderOf(txs[t]), LinesOf(lines, t), <<>>, <<>>)),
                        2)
        /\ SavedLines(lines, t, Submission(HeaderOf(txs[t]), LinesOf(lines, t), <<>>, <<>>))
              = EmptyBag

\* ---------------------------------------------------------------------
\* categorizer specification: the model file is written by training and
\* removed, and predictions go through the provider the module keeps.
\* last holds the file (0 when absent, else the number of the training
\* that wrote it), the module-level _provider (<<>> for None) and what
\* the last call returned.
\* ---------------------------------------------------------------------

\* the most trainings run
CatMaxTrain == 3

\* the requests to predict: amount is <<>> when the caller leaves it out
PredictIn ==
    [payee : {"AMAZON EU", "STAPLES DUBLIN"}, narrative : {"", "cables"},
     amount : {<<>>, <<1299>>}]

\* LocalCategorizer(): the model is loaded from the file if it exists now
LocalCategorizer(file) == [model |-> file]

\* _get_provider(): the provider after the call
get_provider(provider, file) ==
    IF provider = <<>> THEN <<LocalCategorizer(file)>>
    ELSE IF provider[1].model = 0 /\ file # 0 THEN <<LocalCategorizer(file)>>
    ELSE provider

\* LocalCategorizer.predict: the fallback, or the answer of the loaded
\* model, tagged with the model that gave it; confidence in hundredths
predict(p, x) ==
    IF p.model = 0 THEN [code |-> "5000", confidence |-> 10, model |-> 0]
    ELSE [code |-> "classes_[argmax]", confidence |-> 83, model |-> p.model]

\* predict_account_code(payee=, narrative=, amount=): the provider after
\* the call and the pair returned, or the TypeError of float(None)
predict_account_code(provider, file, x) ==
    [provider |-> get_provider(provider, file),
     result |-> IF x.amount = <<>> THEN [error |-> "TypeError"]
                ELSE predict(get_provider(provider, file)[1], x)]

\* a ledger with posted lines to train on, no model file, no provider yet
CatInit ==
    /\ txs = setUp[1]
    /\ lines = setUp[2]
    /\ nextTx = Cardinality(DOMAIN setUp[1]) + 1
    /\ last = [op |-> "init", file |-> 0, provider |-> <<>>, trained |-> 0,
               request |-> <<>>, result |-> <<>>]

\* train_from_ledger on the posted lines writes a new model file
CatTrain ==
    /\ last.trained < CatMaxTrain
    /\ \E x \in DOMAIN lines : txs[x.transaction].posted
    /\ last' = [last EXCEPT !.op = "train", !.file = last.trained + 1,
                            !.trained = @ + 1, !.request = <<>>, !.result = <<>>]
    /\ UNCHANGED <<txs, lines, nextTx>>

\* MODEL_PATH.unlink()
CatRemove ==
    /\ last.file # 0
    /\ last' = [last EXCEPT !.op = "remove", !.file = 0, !.request = <<>>, !.result = <<>>]
    /\ UNCHANGED <<txs, lines, nextTx>>

CatPredict ==
    \E x \in PredictIn :
        \E c \in {predict_account_code(last.provider, last.file, x)} :
            /\ last' = [last EXCEPT !.op = "predict", !.provider = c.provider,
                                    !.request = <<x>>, !.result = <<c.result>>]
            /\ UNCHANGED <<txs, lines, nextTx>>

CatNext ==
    \/ CatTrain
    \/ CatRemove
    \/ CatPredict

SpecCat == CatInit /\ [][CatNext]_vars

\* C26: after every prediction asked with an amount, the answer is the
\* fallback, account 5000 with confidence 0.10, if no model file exists at
\* the time of the call, and the answer of a loaded model if one exists.
C26_ProviderNeverStale ==
    (last.op = "predict" /\ last.request[1].amount # <<>>) =>
        /\ last.file = 0 =>
              last.result[1] = [code |-> "5000", confidence |-> 10, model |-> 0]
        /\ last.file # 0 => last.result[1].model # 0

\* a prediction has just been answered by the model of the first training
\* although the file was removed before the call
C26_StaleAfterRemoval ==
    /\ last.op = "predict" /\ last.file = 0
    /\ last.request[1].amount # <<>>
    /\ last.result[1].model = 1

\* ---------------------------------------------------------------------
\* reports in query order: the queryset yields the selected lines in an
\* order the code does not fix; _accumulate fills a dict in the order it
\* first meets each account, and the sections are lists sorted by code
\* ---------------------------------------------------------------------

\* the selected lines as the queryset yields them when the transactions
\* come in the order given
RECURSIVE RowsIn(_, _)
RowsIn(sel, order) ==
    IF order = <<>> THEN <<>>
    ELSE BagToSeq(LinesOf(sel, Head(order))) \o RowsIn(sel, Tail(order))

\* _accumulate(lines): sums.values() in the order of insertion, starting
\* from the sums met so far
RECURSIVE accumulate_ordered(_, _)
accumulate_ordered(rows, sums) ==
    IF rows = <<>>
    THEN [k \in 1 .. Len(sums) |-> LineSum(sums[k].account, sums[k].base)]
    ELSE accumulate_ordered(
             Tail(rows),
             IF \E k \in 1 .. Len(sums) : sums[k].account = Head(rows).account
             THEN [k \in 1 .. Len(sums) |->
                      IF sums[k].account = Head(rows).account
                      THEN [sums[k] EXCEPT !.base = DecAdd(@, line_base(Head(rows)))]
                      ELSE sums[k]]
             ELSE Append(sums, [account |-> Head(rows).account,
                                base |-> DecAdd(Zero, line_base(Head(rows)))]))

\* a sort that leaves the list as it is
unsorted(seq) == seq

\* sorted(seq, key=lambda x: x.account_code): a stable sort
RECURSIVE stable_sorted(_)
stable_sorted(seq) ==
    IF seq = <<>> THEN <<>>
    ELSE LET h == Head(seq)
             before(x) == CodeLess(x.account_code, h.account_code)
             after(x) == ~CodeLess(x.account_code, h.account_code)
         IN  SelectSeq(stable_sorted(Tail(seq)), before)
             \o <<h>> \o SelectSeq(stable_sorted(Tail(seq)), after)

\* sum((s.display for s in seq), Decimal("0"))
RECURSIVE sum_ordered(_)
sum_ordered(seq) ==
    IF seq = <<>> THEN Zero
    ELSE DecAdd(sum_ordered(SubSeq(seq, 1, Len(seq) - 1)), seq[Len(seq)].display)

\* [s for s in sums.values() if s.type == type]
TypeOnly(sums, type) ==
    LET keep(s) == s.type = type
    IN  SelectSeq(sums, keep)

\* the rows of a section as the report lists them
Listing(seq) ==
    [k \in 1 .. Len(seq) |->
        [code |-> seq[k].account_code, name |-> seq[k].account_name,
         amount |-> DecStr(seq[k].display)]]

\* the two orders in which any two transactions of T swap places: oldest
\* first and newest first
Orders(T) ==
    {o \in [1 .. Cardinality(T) -> T] :
        \/ \A i, j \in DOMAIN o : i < j => o[i] < o[j]
        \/ \A i, j \in DOMAIN o : i < j => o[i] > o[j]}

\* the section and the total of a type, computed in query order, are those
\* computed from the set of selected lines
SameSection(sums, S, type) ==
    /\ Listing(stable_sorted(TypeOnly(sums, type))) = Rows(OfType(S, type))
    /\ sum_ordered(TypeOnly(sums, type)) = sum_display(OfType(S, type))

\* C28: in every reachable state, for every as_of, every period and both
\* orders in which the posted transactions can come out of the query, the
\* sections of the income statement and of the balance sheet, rows in
\* order, and the totals they are summed to are those computed from the
\* set of posted lines alone: posting a then b and posting b then a give
\* the same reports.
C28_ReportsOrderFree ==
    \A o \in Orders({t \in DOMAIN txs : txs[t].posted}) :
        /\ \A as_of \in RepDates :
              \A sel \in {iter_lines(txs, lines, {}, as_of)} :
                  \A sums \in {accumulate_ordered(RowsIn(sel, o), <<>>)},
                     S \in {accumulate(sel)} :
                      \A type \in {"ASSET", "LIAB", "EQTY", "INC", "EXP"} :
                          SameSection(sums, S, type)
        /\ \A start \in RepDates, end \in RepDates :
              start <= end =>
              \A sel \in {iter_lines(txs, lines, {start}, end)} :
                  \A sums \in {accumulate_ordered(RowsIn(sel, o), <<>>)},
                     S \in {accumulate(sel)} :
                      \A type \in {"INC", "EXP"} : SameSection(sums, S, type)

\* a debit of Office Supplies against a credit of Suspense is posted after
\* the sale and the purchase: the query meets Bank before Suspense and Food
\* before Office Supplies in one order and after them in the other, and
\* both reports list Bank first and Office Supplies first
C28_Witness ==
    /\ last.op = "create_and_post" /\ last.result = "ok"
    /\ \E x \in DOMAIN lines : x.transaction = 3 /\ x.account = Supplies /\ x.debit > 0
    /\ \E x \in DOMAIN lines : x.transaction = 3 /\ x.account = Suspense /\ x.credit > 0
    /\ txs[3].tx_date = 11
    /\ accumulate_ordered(RowsIn(iter_lines(txs, lines, {}, 11), <<3, 2, 1>>), <<>>)[1].type
          \in {"ASSET", "EXP"}
    /\ balance_sheet(txs, lines, 11).assets[1].code = Bank.code
    /\ income_statement(txs, lines, 10, 11).expenses[1].code = Supplies.code

\* r is the reversal of t: the reversing action names its source in the
\* memo of the transaction it creates
ReversalOf(r, t) == txs[r].memo = ReversalMemo(t)

\* the reports of two states of the tables show the same amounts for the
\* accounts Bank and Sales, for retained earnings and in every total
SameReports(tt, ls, uu, ms) ==
    \A d \in Dates :
        /\ \A sheet \in {balance_sheet(tt, ls, d)}, other \in {balance_sheet(uu, ms, d)} :
              /\ \A code \in {Bank.code, Sales.code, RETAINED} :
                    SameAmount(Shown(sheet, code), Shown(other, code))
              /\ SameAmount(sheet.totals.assets, other.totals.assets)
              /\ SameAmount(sheet.totals.liabilities_plus_equity,
                            other.totals.liabilities_plus_equity)
        /\ \A inc \in {income_statement(tt, ls, d, d)},
              other \in {income_statement(uu, ms, d, d)} :
              /\ SameAmount(Listed(inc.income, Sales.code), Listed(other.income, Sales.code))
              /\ SameAmount(inc.totals.net_income, other.totals.net_income)

\* C29: in every reachable state, the reversal r of a posted transaction t
\* is posted and owns the lines of t with debit and credit exchanged; the
\* reversal r2 of r is posted and owns lines equal to those of t, and the
\* reports with t, r and r2 show for every account the amounts they show
\* without r and r2; no step changes a posted transaction or its lines.
C29_ReversalOfReversal ==
    /\ [](\A t \in DOMAIN txs, r \in DOMAIN txs :
              (txs[t].posted /\ ReversalOf(r, t)) =>
                  /\ txs[r].posted
                  /\ Owned(lines, r) = Mirror(Owned(lines, t))
                  /\ \A r2 \in DOMAIN txs :
                        ReversalOf(r2, r) =>
                            /\ txs[r2].posted
                            /\ Owned(lines, r2) = Owned(lines, t)
                            /\ SameReports(txs, lines,
                                           Without({r, r2})[1], Without({r, r2})[2]))
    /\ [][\A u \in DOMAIN txs :
              txs[u].posted =>
                  /\ u \in DOMAIN txs'
                  /\ txs'[u] = txs[u]
                  /\ LinesOf(lines', u) = LinesOf(lines, u)]_vars

\* the sale, its reversal and the reversal of its reversal are all posted,
\* the last one just committed by the service
C29_Witness ==
    /\ last.svc = [pc |-> "done", result |-> "ok"]
    /\ DOMAIN txs = {1, 2, 3}
    /\ ReversalOf(2, 1) /\ ReversalOf(3, 2)
    /\ txs[1].posted /\ txs[2].posted /\ txs[3].posted
    /\ Owned(lines, 3) = Owned(lines, 1)
    /\ balance_sheet(txs, lines, 1).totals.assets = "0.01"

====
